---------------------------- MODULE Spec2Model ----------------------------
(***************************************************************************)
(* A model of the scrubiq detection and findings pipeline:                 *)
(*   - ClassifierPipeline (classifier/pipeline.py): classify,              *)
(*     _deduplicate, _apply_tpfp_filter, _recommend_label;                 *)
(*   - Encryptor (storage/crypto.py): encrypt / decrypt;                   *)
(*   - AuditLog (storage/audit.py) and FindingsDatabase                    *)
(*     (storage/database.py).                                              *)
(* Confidences are percentages (0.85 is 85): the code only compares and    *)
(* negates them.  Strings are sequences of Unicode code points.            *)
(***************************************************************************)
EXTENDS Integers, Sequences, FiniteSets, TLC

VARIABLES
    \* ---- ClassifierPipeline ----
    pc,                  \* the pipeline call: "idle" | "input" | "done" | "raised"
    presidio_detector,   \* ClassifierPipeline.presidio_detector is not None
    tpfp_classifier,     \* ClassifierPipeline.tpfp_classifier is not None
    all_matches,         \* classify: the candidates handed to _deduplicate
    presidio_raised,     \* classify: presidio_detector.detect raised
    results,             \* _apply_tpfp_filter: what predict_batch did
    matches,             \* ClassificationResult.matches
    label_recommendation, \* ClassificationResult.label_recommendation
    \* ---- Encryptor, on its own ----
    cpc,                 \* "input" | "encrypted" | "decrypted" | "stored" | "read"
    key1,                \* Encryptor._key of the encryptor that encrypts
    key2,                \* Encryptor._key of the encryptor that decrypts
    plaintext,           \* the string handed to encrypt
    ciphertext,          \* what encrypt returned
    decrypted,           \* what decrypt did: a string, or an exception
    columns,             \* store_scan: value_encrypted, context_encrypted
    finding,             \* get_findings: value, context, or an exception
    \* ---- FindingsDatabase and its AuditLog ----
    is_open,             \* the sqlite3 connection is open
    conn,                \* the tables as the connection sees them
    disk,                \* the tables as committed to findings.db
    audit,               \* the lines of the .audit.jsonl file
    encryptor_key,       \* FindingsDatabase.encryptor._key
    ret,                 \* the call in progress: what it did and returned
    \* ---- Scanner and ScanResult ----
    discovered,          \* Scanner.scan: the files _iter_files gave
    scan_result,         \* the ScanResult
    now,                 \* the last reading of datetime.now()
    scan_op,             \* the last operation on the ScanResult
    \* ---- key storage (storage/crypto.py) ----
    HAS_KEYRING,         \* the keyring package could be imported
    keyring_password,    \* the key in the OS credential store, or None
    key_file,            \* the key in the fallback file, or None
    \* ---- AuditLog read on its own (storage/audit.py) ----
    log_file,            \* the lines of the file at AuditLog.log_path
    log_ret,             \* the read in progress and what it returned
    \* ---- a function applied on its own ----
    called,              \* the function applied, "idle" before the call
    arg,                 \* its argument
    returned,            \* what it returned
    \* ---- two FindingsDatabase objects on one database file ----
    conns,               \* per connection: the tables of its open transaction
    holder,              \* the connection that holds the write lock, 0 for none
    running              \* per connection: the call in progress

pipeVars == <<pc, presidio_detector, tpfp_classifier, all_matches,
              presidio_raised, results, matches, label_recommendation>>

cryptoVars == <<cpc, key1, key2, plaintext, ciphertext, decrypted, columns,
                finding>>

storeVars == <<is_open, conn, disk, audit, encryptor_key, ret>>

scanVars == <<discovered, scan_result, now, scan_op>>

keyVars == <<HAS_KEYRING, keyring_password, key_file>>

logVars == <<log_file, log_ret>>

callVars == <<called, arg, returned>>

connVars == <<conns, holder, running>>

vars == <<pipeVars, cryptoVars, storeVars, scanVars, keyVars, logVars, callVars, connVars>>

----------------------------------------------------------------------------
(* Bounds of the model.                                                    *)

MaxPos == 2          \* classify: offsets into the text are 0..MaxPos
MaxRegex == 1        \* matches the pattern detector returns for one text
MaxPresidio == 1     \* matches the statistical detector returns for one text
MaxOffset == 3       \* _deduplicate on its own: offsets are 0..MaxOffset
MaxCandidates == 3   \* length of a list handed to _deduplicate on its own
MaxMatches == 3      \* length of a list handed to _recommend_label on its own
MaxFiltered == 2     \* length of a list handed to _apply_tpfp_filter on its own
MaxStrLen == 2       \* length of a string handed to encrypt
NumKeys == 3         \* keys generate_key can return
MaxAudit == 3        \* lines of the audit log
MaxFiles == 2        \* files of a scan
MaxClock == 2        \* readings of the clock are 0..MaxClock
MaxLines == 3        \* lines of an audit log that is read on its own
MaxLog == 5          \* lines of the audit log two connections write
MaxValueLen == 6     \* length of a match value handed to redacted_value

----------------------------------------------------------------------------
(* scanner/results.py: EntityType, LabelRecommendation.                    *)

SSN == "ssn"
NAME == "name"
EMAIL == "email"
PHONE == "phone"
MRN == "medical_record_number"
HEALTH_PLAN_ID == "health_plan_id"
CREDIT_CARD == "credit_card"
CVV == "cvv"
PRIVATE_KEY == "private_key"

PUBLIC == "public"
INTERNAL == "internal"
CONFIDENTIAL == "confidential"
HIGHLY_CONFIDENTIAL == "highly_confidential"
None == "None"

HIGH_SENSITIVITY_TYPES == {SSN, CREDIT_CARD, MRN, HEALTH_PLAN_ID, CVV, PRIVATE_KEY}

\* thresholds of _recommend_label, in percent
HighConfidence == 85
MediumConfidence == 70

\* ClassifierPipeline.__init__: tpfp_threshold = 0.5
tpfp_threshold == 50

----------------------------------------------------------------------------
(* Detector outputs.                                                       *)

\* Pattern.confidence_base of the four patterns of ALL_PATTERNS
confidence_base(t) ==
    CASE t = SSN -> 75
      [] t = CREDIT_CARD -> 70
      [] t = EMAIL -> 90
      [] t = PHONE -> 65

\* position of a pattern in ALL_PATTERNS
PatternIndex(t) ==
    CASE t = SSN -> 1
      [] t = CREDIT_CARD -> 2
      [] t = EMAIL -> 3
      [] t = PHONE -> 4

RegexTypes == {SSN, EMAIL}
\* analyzer results, by mapped entity type and score
PresidioResults == {<<NAME, 60>>, <<SSN, 95>>}

RangesTo(n) == {r \in (0..n) \X (0..n) : r[1] < r[2]}
Ranges == RangesTo(MaxPos)

\* Match as the pipeline reads it.  value and context are slices of the text
\* at (start, end); neither _deduplicate nor _recommend_label reads them.
Match(t, s, e, c, d, test) ==
    [entity_type |-> t, start |-> s, end |-> e, confidence |-> c,
     detector |-> d, is_test_data |-> test]

\* RegexDetector.detect: one Match per validated regex hit, confidence the
\* pattern's base confidence, is_test_data from the pattern's test table
RegexMatches ==
    {Match(t, r[1], r[2], confidence_base(t), "regex", test) :
        t \in RegexTypes, r \in Ranges, test \in BOOLEAN}

\* PresidioDetector.detect: one Match per analyzer result of a mapped type,
\* confidence the analyzer's score, is_test_data left at its default
PresidioMatches ==
    {Match(a[1], r[1], r[2], a[2], "presidio", FALSE) :
        a \in PresidioResults, r \in Ranges}

SeqsUpTo(S, n) == UNION {[1..k -> S] : k \in 0..n}

\* detect loops over the patterns in order and over finditer, whose hits
\* within one pattern are in text order and do not overlap
RegexOrdered(ms) ==
    \A i \in 1..(Len(ms) - 1) :
        \/ PatternIndex(ms[i].entity_type) < PatternIndex(ms[i + 1].entity_type)
        \/ /\ ms[i].entity_type = ms[i + 1].entity_type
           /\ ms[i].end <= ms[i + 1].start

RegexOutputs == {ms \in SeqsUpTo(RegexMatches, MaxRegex) : RegexOrdered(ms)}
PresidioOutputs == SeqsUpTo(PresidioMatches, MaxPresidio)

----------------------------------------------------------------------------
(* ClassifierPipeline._deduplicate                                         *)

\* the sort key (m.start, -m.confidence), compared as Python compares tuples
KeyLess(a, b) ==
    \/ a.start < b.start
    \/ a.start = b.start /\ (0 - a.confidence) < (0 - b.confidence)

\* insert m behind every element whose key is not greater (sorted is stable)
RECURSIVE InsertSorted(_, _)
InsertSorted(s, m) ==
    IF s = <<>> THEN <<m>>
    ELSE IF KeyLess(m, s[Len(s)]) THEN
        Append(InsertSorted(SubSeq(s, 1, Len(s) - 1), m), s[Len(s)])
    ELSE Append(s, m)

RECURSIVE sorted(_)
sorted(ms) ==
    IF ms = <<>> THEN <<>>
    ELSE InsertSorted(sorted(SubSeq(ms, 1, Len(ms) - 1)), ms[Len(ms)])

\* a sweep that lets a candidate through one position early
Skips_OffByOne(m, last_end) == m.start + 1 < last_end

\* a sweep that also skips a candidate that starts where the last one ends
Skips_Touching(m, last_end) == m.start <= last_end

\* "Skip if overlaps with previous match"
Skips(m, last_end) == m.start < last_end

\* the loop over sorted_matches from index i on
RECURSIVE Sweep(_, _, _, _)
Sweep(sm, i, last_end, result) ==
    IF i > Len(sm) THEN result
    ELSE IF Skips(sm[i], last_end) THEN Sweep(sm, i + 1, last_end, result)
    ELSE Sweep(sm, i + 1, sm[i].end, Append(result, sm[i]))

_deduplicate(ms) ==
    IF ms = <<>> THEN <<>> ELSE Sweep(sorted(ms), 1, -1, <<>>)

----------------------------------------------------------------------------
(* ClassifierPipeline._recommend_label                                     *)

\* a filter that lets test data through
real_matches_Unfiltered(ms) == ms

\* "Filter out test data"
real_matches(ms) == SelectSeq(ms, LAMBDA m : ~m.is_test_data)

RECURSIVE max_confidence(_)
max_confidence(ms) ==
    IF Len(ms) = 1 THEN ms[1].confidence
    ELSE LET rest == max_confidence(SubSeq(ms, 2, Len(ms)))
         IN  IF ms[1].confidence >= rest THEN ms[1].confidence ELSE rest

_recommend_label(ms) ==
    IF ms = <<>> THEN None
    ELSE LET real == real_matches(ms) IN
         IF real = <<>> THEN None
         ELSE LET has_high_sensitivity ==
                      \E i \in 1..Len(real) : real[i].entity_type \in HIGH_SENSITIVITY_TYPES
                  mc == max_confidence(real)
              IN  IF has_high_sensitivity /\ mc >= HighConfidence THEN HIGHLY_CONFIDENTIAL
                  ELSE IF has_high_sensitivity THEN CONFIDENTIAL
                  ELSE IF mc >= MediumConfidence THEN INTERNAL
                  ELSE PUBLIC

----------------------------------------------------------------------------
(* ClassifierPipeline._apply_tpfp_filter                                   *)

\* TPFPClassifier.predict_batch returns one prediction per context
Predictions == [is_false_positive : BOOLEAN, confidence : {40, 60}]

\* what predict_batch does on a batch of n contexts: one prediction per
\* context, or an exception of the model
BatchOutcomes(n) ==
    {[raised |-> FALSE, out |-> r] : r \in [1..n -> Predictions]}
        \cup {[raised |-> TRUE, out |-> <<>>]}

\* predict_batch was not called
NoResults == [raised |-> FALSE, out |-> <<>>]

\* a filter that sets the flag to the prediction, clearing a flag already set
_apply_tpfp_filter_Overwriting(ms, predicted) ==
    [i \in 1..Len(ms) |->
        [ms[i] EXCEPT !.is_test_data =
            predicted[i].is_false_positive
                /\ predicted[i].confidence >= tpfp_threshold]]

\* _apply_tpfp_filter, "for match, result in zip(matches, results)"
_apply_tpfp_filter(ms, predicted) ==
    [i \in 1..Len(ms) |->
        IF predicted[i].is_false_positive /\ predicted[i].confidence >= tpfp_threshold
        THEN [ms[i] EXCEPT !.is_test_data = TRUE]
        ELSE ms[i]]

----------------------------------------------------------------------------
\* the state of the parts a specification leaves alone
CryptoIdle ==
    /\ cpc = "idle"
    /\ key1 = 1
    /\ key2 = 1
    /\ plaintext = <<>>
    /\ ciphertext = <<>>
    /\ decrypted = [raised |-> FALSE, value |-> <<>>]
    /\ columns = <<>>
    /\ finding = <<>>

EmptyTables == [scans |-> {}, files |-> {}, matches |-> {},
                seq_files |-> 0, seq_matches |-> 0]

StoreIdle ==
    /\ is_open = FALSE
    /\ conn = EmptyTables
    /\ disk = EmptyTables
    /\ audit = <<>>
    /\ encryptor_key = 1
    /\ ret = [op |-> "idle"]

\* Optional[datetime]: None, or a reading of the clock
NoTime == <<>>
Time(t) == <<t>>

\* ScanResult(): no files, completed_at None
NoScanResult == [files |-> <<>>, completed_at |-> NoTime]

ScanIdle ==
    /\ discovered = <<>>
    /\ scan_result = NoScanResult
    /\ now = 0
    /\ scan_op = "idle"

\* no key stored anywhere: the encryptor was given its key
\* keyring.get_password returns None; the key file does not exist
NoKey == 0

KeyIdle ==
    /\ HAS_KEYRING = FALSE
    /\ keyring_password = NoKey
    /\ key_file = NoKey

\* no second connection
ConnIdle ==
    /\ conns = <<>>
    /\ holder = 0
    /\ running = <<>>

\* no function applied on its own
CallIdle ==
    /\ called = "idle"
    /\ arg = <<>>
    /\ returned = <<>>

\* an empty audit file that nothing reads
LogIdle ==
    /\ log_file = <<>>
    /\ log_ret = [op |-> "idle"]

PipelineIdle ==
    /\ pc = "idle"
    /\ presidio_detector = FALSE
    /\ tpfp_classifier = FALSE
    /\ all_matches = <<>>
    /\ presidio_raised = FALSE
    /\ results = NoResults
    /\ matches = <<>>
    /\ label_recommendation = None

----------------------------------------------------------------------------
(* ClassifierPipeline.classify, and the pipeline's functions on their own. *)

\* what PresidioDetector.detect does on one text: a list, or an exception
PresidioOutcomes ==
    {[raised |-> FALSE, out |-> ms] : ms \in PresidioOutputs}
        \cup {[raised |-> TRUE, out |-> <<>>]}

\* an exception of classify that reaches its caller, in place of the one
\* below: an exception of the statistical detector is let through too
classify_raises_Uncaught(presidio, batch) == presidio.raised \/ batch.raised

\* the exceptions classify lets through: detect of the statistical
\* detector runs inside "try: ... except Exception: pass", predict_batch
\* runs outside of any try
classify_raises(presidio, batch) == batch.raised

\* classify(text): the text decides what the detectors return
classify ==
    /\ pc = "idle"
    /\ \E regex_matches \in RegexOutputs :
       \E presidio \in (IF presidio_detector
                        THEN PresidioOutcomes
                        ELSE {[raised |-> FALSE, out |-> <<>>]}) :
         LET \* "except Exception: pass" leaves all_matches as it was
             presidio_matches == IF presidio.raised THEN <<>> ELSE presidio.out
             all == regex_matches \o presidio_matches
             deduped == _deduplicate(all)
         IN  \* "if self.tpfp_classifier", and in _apply_tpfp_filter
             \* "if not matches": predict_batch runs only then
             \E batch \in (IF tpfp_classifier /\ deduped # <<>>
                           THEN BatchOutcomes(Len(deduped))
                           ELSE {NoResults}) :
               LET filtered == IF tpfp_classifier /\ deduped # <<>>
                               THEN _apply_tpfp_filter(deduped, batch.out)
                               ELSE deduped
               IN  /\ all_matches' = all
                   /\ presidio_raised' = presidio.raised
                   /\ results' = batch
                   /\ IF classify_raises(presidio, batch)
                      THEN /\ pc' = "raised"
                           /\ matches' = <<>>
                           /\ label_recommendation' = None
                      ELSE /\ pc' = "done"
                           /\ matches' = filtered
                           /\ label_recommendation' = _recommend_label(filtered)
    /\ UNCHANGED <<presidio_detector, tpfp_classifier, cryptoVars, storeVars, scanVars, keyVars, logVars, callVars, connVars>>

\* the caller drops the ClassificationResult, or handles the exception; the
\* pipeline keeps no state
ClassifyReturn ==
    /\ pc \in {"done", "raised"}
    /\ pc' = "idle"
    /\ all_matches' = <<>>
    /\ presidio_raised' = FALSE
    /\ results' = NoResults
    /\ matches' = <<>>
    /\ label_recommendation' = None
    /\ UNCHANGED <<presidio_detector, tpfp_classifier, cryptoVars, storeVars, scanVars, keyVars, logVars, callVars, connVars>>

InitClassify ==
    /\ pc = "idle"
    /\ presidio_detector \in BOOLEAN
    /\ tpfp_classifier \in BOOLEAN
    /\ all_matches = <<>>
    /\ presidio_raised = FALSE
    /\ results = NoResults
    /\ matches = <<>>
    /\ label_recommendation = None
    /\ CryptoIdle
    /\ StoreIdle
    /\ ScanIdle
    /\ KeyIdle
    /\ ConnIdle
    /\ CallIdle
    /\ LogIdle

NextClassify == classify \/ ClassifyReturn

SpecClassify == InitClassify /\ [][NextClassify]_vars

----------------------------------------------------------------------------
(* _deduplicate on its own: any list of matches, in any order.             *)

DedupCandidates ==
    {Match(NAME, r[1], r[2], c, "presidio", FALSE) :
        r \in RangesTo(MaxOffset), c \in {60, 75, 90}}

Deduplicate ==
    /\ pc = "input"
    /\ matches' = _deduplicate(all_matches)
    /\ pc' = "done"
    /\ UNCHANGED <<presidio_detector, tpfp_classifier, all_matches,
                   presidio_raised, results, label_recommendation,
                   cryptoVars, storeVars, scanVars, keyVars, logVars, callVars, connVars>>

InitDedup ==
    /\ pc = "input"
    /\ presidio_detector = FALSE
    /\ tpfp_classifier = FALSE
    /\ all_matches \in SeqsUpTo(DedupCandidates, MaxCandidates)
    /\ presidio_raised = FALSE
    /\ results = NoResults
    /\ matches = <<>>
    /\ label_recommendation = None
    /\ CryptoIdle
    /\ StoreIdle
    /\ ScanIdle
    /\ KeyIdle
    /\ ConnIdle
    /\ CallIdle
    /\ LogIdle

NextDedup == Deduplicate

SpecDedup == InitDedup /\ [][NextDedup]_vars

----------------------------------------------------------------------------
(* _recommend_label on its own: any list of matches.                       *)

LabelMatches ==
    {Match(t, 0, 1, c, "regex", test) :
        t \in {SSN, EMAIL}, c \in {69, 70, 84, 85}, test \in BOOLEAN}

RecommendLabel ==
    /\ pc = "input"
    /\ label_recommendation' = _recommend_label(matches)
    /\ pc' = "done"
    /\ UNCHANGED <<presidio_detector, tpfp_classifier, all_matches,
                   presidio_raised, results, matches, cryptoVars, storeVars, scanVars, keyVars, logVars, callVars, connVars>>

InitLabel ==
    /\ pc = "input"
    /\ presidio_detector = FALSE
    /\ tpfp_classifier = FALSE
    /\ all_matches = <<>>
    /\ presidio_raised = FALSE
    /\ results = NoResults
    /\ matches \in SeqsUpTo(LabelMatches, MaxMatches)
    /\ label_recommendation = None
    /\ CryptoIdle
    /\ StoreIdle
    /\ ScanIdle
    /\ KeyIdle
    /\ ConnIdle
    /\ CallIdle
    /\ LogIdle

NextLabel == RecommendLabel

SpecLabel == InitLabel /\ [][NextLabel]_vars

----------------------------------------------------------------------------
(* _apply_tpfp_filter on its own: any list of matches, flagged by the      *)
(* pattern detector or not, and any predictions for them.                  *)

FilterMatches ==
    {Match(t, 0, 1, confidence_base(t), "regex", test) :
        t \in {SSN, EMAIL}, test \in BOOLEAN}

ApplyFilter ==
    /\ pc = "input"
    /\ matches' = IF all_matches = <<>> \/ ~tpfp_classifier
                  THEN all_matches
                  ELSE _apply_tpfp_filter(all_matches, results.out)
    /\ pc' = "done"
    /\ UNCHANGED <<presidio_detector, tpfp_classifier, all_matches,
                   presidio_raised, results, label_recommendation,
                   cryptoVars, storeVars, scanVars, keyVars, logVars, callVars, connVars>>

InitFilter ==
    /\ pc = "input"
    /\ presidio_detector = FALSE
    /\ tpfp_classifier = TRUE
    /\ all_matches \in SeqsUpTo(FilterMatches, MaxFiltered)
    /\ presidio_raised = FALSE
    /\ results \in {b \in BatchOutcomes(Len(all_matches)) : ~b.raised}
    /\ matches = <<>>
    /\ label_recommendation = None
    /\ CryptoIdle
    /\ StoreIdle
    /\ ScanIdle
    /\ KeyIdle
    /\ ConnIdle
    /\ CallIdle
    /\ LogIdle

NextFilter == ApplyFilter

SpecFilter == InitFilter /\ [][NextFilter]_vars

----------------------------------------------------------------------------
(* Claims about the classification pipeline.                               *)

\* half-open ranges [start, end) share a position
Overlap(a, b) == a.start < b.end /\ b.start < a.end

Kept(m) == \E k \in 1..Len(matches) : matches[k] = m

\* C1: the match list classify returns holds no two matches whose
\* half-open ranges [start, end) overlap.
C1_NoOverlap ==
    pc = "done" =>
        \A i, j \in 1..Len(matches) :
            i # j => ~Overlap(matches[i], matches[j])

\* classify has returned for a text on which two detectors reported
\* overlapping candidates
C1_Witness ==
    /\ pc = "done"
    /\ matches # <<>>
    /\ \E i, j \in 1..Len(all_matches) :
          i # j /\ Overlap(all_matches[i], all_matches[j])

\* C2: of two overlapping candidates handed to _deduplicate, the one with
\* the strictly higher confidence is never dropped while the other is kept,
\* and on equal confidence the earlier-starting one is retained.
C2_HigherConfidenceRetained ==
    pc = "done" =>
        \A i, j \in 1..Len(all_matches) :
            LET a == all_matches[i]
                b == all_matches[j]
            IN  Overlap(a, b) =>
                  /\ a.confidence > b.confidence => ~(Kept(b) /\ ~Kept(a))
                  /\ (a.confidence = b.confidence /\ a.start < b.start) => Kept(a)

\* C10, as the claim states the rule: over the matches with is_test_data
\* false only
IsReal(m) == m.is_test_data = FALSE

ClaimedLabel(ms) ==
    LET real == {i \in 1..Len(ms) : IsReal(ms[i])}
        high == \E i \in real : ms[i].entity_type \in HIGH_SENSITIVITY_TYPES
        atLeast(c) == \E i \in real : ms[i].confidence >= c
    IN  IF real = {} THEN None
        ELSE IF high /\ atLeast(85) THEN HIGHLY_CONFIDENTIAL
        ELSE IF high THEN CONFIDENTIAL
        ELSE IF atLeast(70) THEN INTERNAL
        ELSE PUBLIC

RemoveAt(ms, i) == SubSeq(ms, 1, i - 1) \o SubSeq(ms, i + 1, Len(ms))

\* the lists that differ from ms in one test-data match added, removed or
\* changed
TestDataVariants(ms) ==
    {Append(ms, m) : m \in {x \in LabelMatches : x.is_test_data}}
        \cup {RemoveAt(ms, i) : i \in {k \in 1..Len(ms) : ms[k].is_test_data}}
        \cup {[ms EXCEPT ![i] = m] :
                 i \in {k \in 1..Len(ms) : ms[k].is_test_data},
                 m \in {x \in LabelMatches : x.is_test_data}}

\* C10: the label recommendation is the claimed function of the real
\* (is_test_data = false) matches, and adding, removing or changing a
\* test-data match never changes it.
C10_LabelOfRealMatches ==
    pc = "done" =>
        /\ label_recommendation = ClaimedLabel(matches)
        /\ \A ms \in TestDataVariants(matches) :
              _recommend_label(ms) = label_recommendation

\* a high-sensitivity real match below 0.85 next to a test-data match of
\* higher confidence: CONFIDENTIAL
C10_Witness ==
    /\ pc = "done"
    /\ label_recommendation = CONFIDENTIAL
    /\ \E i, j \in 1..Len(matches) :
          /\ ~matches[i].is_test_data /\ matches[i].entity_type = SSN
          /\ matches[j].is_test_data /\ matches[j].confidence >= 85

----------------------------------------------------------------------------
(* storage/crypto.py: Encryptor.  A str is a sequence of code points, a    *)
(* bytes object a sequence of 0..255.                                      *)

\* "A", e-acute, a CJK ideograph and an emoji: 1, 2, 3 and 4 bytes of UTF-8
CodePoints == {65, 233, 26085, 128274}
Strings == SeqsUpTo(CodePoints, MaxStrLen)
Keys == 1..NumKeys
\* the initialisation vector Fernet draws for one token
IVs == {0, 1}

RECURSIVE Flatten(_)
Flatten(ss) == IF ss = <<>> THEN <<>> ELSE Head(ss) \o Flatten(Tail(ss))

\* str.encode("utf-8"), one code point
utf8_bytes(cp) ==
    IF cp < 128 THEN <<cp>>
    ELSE IF cp < 2048 THEN <<192 + (cp \div 64), 128 + (cp % 64)>>
    ELSE IF cp < 65536 THEN
        <<224 + (cp \div 4096), 128 + ((cp \div 64) % 64), 128 + (cp % 64)>>
    ELSE <<240 + (cp \div 262144), 128 + ((cp \div 4096) % 64),
           128 + ((cp \div 64) % 64), 128 + (cp % 64)>>

utf8_encode(str) == Flatten([i \in 1..Len(str) |-> utf8_bytes(str[i])])

\* bytes.decode("utf-8"): the lead byte tells the length of a code point
RECURSIVE utf8_decode(_)
utf8_decode(b) ==
    IF b = <<>> THEN <<>>
    ELSE IF b[1] < 128 THEN <<b[1]>> \o utf8_decode(SubSeq(b, 2, Len(b)))
    ELSE IF b[1] < 224 THEN
        <<(b[1] - 192) * 64 + (b[2] - 128)>> \o utf8_decode(SubSeq(b, 3, Len(b)))
    ELSE IF b[1] < 240 THEN
        <<(b[1] - 224) * 4096 + (b[2] - 128) * 64 + (b[3] - 128)>>
            \o utf8_decode(SubSeq(b, 4, Len(b)))
    ELSE <<(b[1] - 240) * 262144 + (b[2] - 128) * 4096 + (b[3] - 128) * 64
             + (b[4] - 128)>> \o utf8_decode(SubSeq(b, 5, Len(b)))

\* the URL-safe base64 alphabet, as code points; "=" pads
b64char(v) ==
    IF v < 26 THEN 65 + v
    ELSE IF v < 52 THEN 97 + (v - 26)
    ELSE IF v < 62 THEN 48 + (v - 52)
    ELSE IF v = 62 THEN 45
    ELSE 95

PadChar == 61

b64val(c) ==
    IF c >= 65 /\ c <= 90 THEN c - 65
    ELSE IF c >= 97 /\ c <= 122 THEN 26 + (c - 97)
    ELSE IF c >= 48 /\ c <= 57 THEN 52 + (c - 48)
    ELSE IF c = 45 THEN 62
    ELSE 63

\* base64.urlsafe_b64encode(...).decode("ascii")
RECURSIVE urlsafe_b64encode(_)
urlsafe_b64encode(b) ==
    IF b = <<>> THEN <<>>
    ELSE IF Len(b) = 1 THEN
        <<b64char(b[1] \div 4), b64char((b[1] % 4) * 16), PadChar, PadChar>>
    ELSE IF Len(b) = 2 THEN
        <<b64char(b[1] \div 4), b64char((b[1] % 4) * 16 + (b[2] \div 16)),
          b64char((b[2] % 16) * 4), PadChar>>
    ELSE <<b64char(b[1] \div 4), b64char((b[1] % 4) * 16 + (b[2] \div 16)),
           b64char((b[2] % 16) * 4 + (b[3] \div 64)), b64char(b[3] % 64)>>
             \o urlsafe_b64encode(SubSeq(b, 4, Len(b)))

\* base64.urlsafe_b64decode(ciphertext.encode("ascii"))
RECURSIVE urlsafe_b64decode(_)
urlsafe_b64decode(c) ==
    IF Len(c) < 4 THEN <<>>
    ELSE LET v1 == b64val(c[1])
             v2 == b64val(c[2])
             v3 == b64val(c[3])
             v4 == b64val(c[4])
         IN  IF c[3] = PadChar THEN <<v1 * 4 + (v2 \div 16)>>
             ELSE IF c[4] = PadChar THEN
                 <<v1 * 4 + (v2 \div 16), (v2 % 16) * 16 + (v3 \div 4)>>
             ELSE <<v1 * 4 + (v2 \div 16), (v2 % 16) * 16 + (v3 \div 4),
                    (v3 % 4) * 64 + v4>>
                      \o urlsafe_b64decode(SubSeq(c, 5, Len(c)))

\* Fernet (the cryptography package), by its contract: a token carries a
\* version byte, the IV, the enciphered data and a MAC that only the key
\* that made the token verifies.  The cipher is a stand-in for AES-CBC.
FernetVersion == 128

Fernet_encrypt(key, iv, data) ==
    <<FernetVersion, iv>>
        \o [i \in 1..Len(data) |-> (data[i] + key + iv) % 256]
        \o <<key>>

InvalidToken == [raised |-> TRUE, value |-> <<>>]

Fernet_decrypt(key, token) ==
    IF \/ Len(token) < 3
       \/ token[1] # FernetVersion
       \/ token[Len(token)] # key
    THEN InvalidToken
    ELSE [raised |-> FALSE,
          value |-> [i \in 1..(Len(token) - 3) |->
                        (token[i + 2] + 512 - key - token[2]) % 256]]

\* Encryptor.encrypt, for the encryptor holding key
encrypt(key, iv, str) ==
    IF str = <<>> THEN <<>>
    ELSE urlsafe_b64encode(Fernet_encrypt(key, iv, utf8_encode(str)))

\* a decrypt that hides a failed decryption behind an empty string
decrypt_Swallow(key, ct) ==
    IF ct = <<>> THEN [raised |-> FALSE, value |-> <<>>]
    ELSE LET p == Fernet_decrypt(key, urlsafe_b64decode(ct))
         IN  IF p.raised THEN [raised |-> FALSE, value |-> <<>>]
             ELSE [raised |-> FALSE, value |-> utf8_decode(p.value)]

\* a decrypt that takes the token bytes for the text
decrypt_NoDecode(key, ct) ==
    IF ct = <<>> THEN [raised |-> FALSE, value |-> <<>>]
    ELSE Fernet_decrypt(key, urlsafe_b64decode(ct))

\* Encryptor.decrypt, for the encryptor holding key: the plaintext, or
\* InvalidToken raised
decrypt(key, ct) ==
    IF ct = <<>> THEN [raised |-> FALSE, value |-> <<>>]
    ELSE LET p == Fernet_decrypt(key, urlsafe_b64decode(ct))
         IN  IF p.raised THEN InvalidToken
             ELSE [raised |-> FALSE, value |-> utf8_decode(p.value)]

\* a column of the matches table: SQL NULL, or a text
NULL == [null |-> TRUE, text |-> <<>>]
Text(t) == [null |-> FALSE, text |-> t]

\* store_scan, the value_encrypted column of a match
value_encrypted(key, iv, value) == Text(encrypt(key, iv, value))

\* store_scan, the context_encrypted column of a match
context_encrypted(key, iv, context) ==
    IF context # <<>> THEN Text(encrypt(key, iv, context)) ELSE NULL

\* a Python value is truthy: neither None nor empty
Truthy(col) == ~col.null /\ col.text # <<>>

\* get_findings, "if decrypt:": finding["value"] and finding["context"], or
\* the exception decrypt raised
decrypt_columns(key, cols) ==
    LET v == decrypt(key, cols.value_encrypted.text)
        c == IF Truthy(cols.context_encrypted)
             THEN decrypt(key, cols.context_encrypted.text)
             ELSE [raised |-> FALSE, value |-> <<>>]
    IN  IF v.raised \/ c.raised
        THEN [raised |-> TRUE, value |-> <<>>, context |-> <<>>]
        ELSE [raised |-> FALSE, value |-> v.value, context |-> c.value]

----------------------------------------------------------------------------
(* storage/crypto.py: where the key is kept.  keyring_password is the      *)
(* entry of the OS credential store, key_file the fallback file; NoKey     *)
(* stands for no entry and no file.  A call of the keyring package may     *)
(* raise; so may the creation or writing of the file.                      *)

\* what a keyring call may do: raise or not, when the package is there
KeyringRaises(has_keyring) == IF has_keyring THEN BOOLEAN ELSE {FALSE}

\* get_or_create_key().  get_raises and set_raises say whether
\* keyring.get_password and keyring.set_password raise, file_raises whether
\* the key file cannot be written; fresh1 and fresh2 are what generate_key
\* returns on its first and second call.  The result: the key returned, or
\* the exception, and what is stored afterwards.
get_or_create_key(has_keyring, password, file, get_raises, set_raises, file_raises, fresh1, fresh2) ==
    IF has_keyring /\ ~get_raises /\ password # NoKey
    THEN [raised |-> FALSE, key |-> password,
          keyring_password |-> password, key_file |-> file]
    ELSE IF has_keyring /\ ~get_raises /\ ~set_raises
    THEN [raised |-> FALSE, key |-> fresh1,
          keyring_password |-> fresh1, key_file |-> file]
    ELSE IF file # NoKey
    THEN [raised |-> FALSE, key |-> file,
          keyring_password |-> password, key_file |-> file]
    ELSE IF file_raises
    THEN [raised |-> TRUE, key |-> NoKey,
          keyring_password |-> password, key_file |-> file]
    ELSE [raised |-> FALSE, key |-> fresh2,
          keyring_password |-> password, key_file |-> fresh2]

\* Encryptor(): self._key = key or get_or_create_key()
NewEncryptor ==
    /\ ret.op = "idle"
    /\ \E get_raises \in KeyringRaises(HAS_KEYRING),
          set_raises \in KeyringRaises(HAS_KEYRING),
          file_raises \in BOOLEAN, fresh1 \in Keys, fresh2 \in Keys :
         LET got == get_or_create_key(HAS_KEYRING, keyring_password, key_file,
                                      get_raises, set_raises, file_raises,
                                      fresh1, fresh2)
         IN  /\ keyring_password' = got.keyring_password
             /\ key_file' = got.key_file
             /\ encryptor_key' = IF got.raised THEN encryptor_key ELSE got.key
             /\ ret' = [op |-> "get_or_create_key", scan_id |-> None,
                        raised |-> got.raised, value |-> got.key]
    /\ UNCHANGED <<HAS_KEYRING, is_open, conn, disk, audit,
                   pipeVars, cryptoVars, scanVars, logVars, callVars, connVars>>

\* Encryptor(key): the key is taken as given, nothing is looked up
EncryptorWithKey ==
    /\ ret.op = "idle"
    /\ \E key \in Keys :
         /\ encryptor_key' = key
         /\ ret' = [op |-> "Encryptor", scan_id |-> None, raised |-> FALSE,
                    value |-> key]
    /\ UNCHANGED <<is_open, conn, disk, audit, pipeVars, cryptoVars, scanVars,
                   keyVars, logVars, callVars, connVars>>

\* Encryptor.rotate_key(new_key), new_key given or generated: the keyring
\* entry under "try: ... except Exception: pass", then the key file, then
\* the encryptor's own key
rotate_key ==
    /\ ret.op = "idle"
    /\ \E new_key \in Keys, set_raises \in KeyringRaises(HAS_KEYRING),
          file_raises \in BOOLEAN :
         /\ keyring_password' = IF HAS_KEYRING /\ ~set_raises
                                THEN new_key ELSE keyring_password
         /\ key_file' = IF file_raises THEN key_file ELSE new_key
         /\ encryptor_key' = IF file_raises THEN encryptor_key ELSE new_key
         /\ ret' = [op |-> "rotate_key", scan_id |-> None,
                    raised |-> file_raises,
                    value |-> IF file_raises THEN NoKey ELSE new_key]
    /\ UNCHANGED <<HAS_KEYRING, is_open, conn, disk, audit,
                   pipeVars, cryptoVars, scanVars, logVars, callVars, connVars>>

\* delete_key()
delete_key ==
    /\ ret.op = "idle"
    /\ \E delete_raises \in KeyringRaises(HAS_KEYRING) :
         LET in_keyring == HAS_KEYRING /\ ~delete_raises /\ keyring_password # NoKey
         IN  /\ keyring_password' = IF in_keyring THEN NoKey ELSE keyring_password
             /\ key_file' = NoKey
             /\ ret' = [op |-> "delete_key", scan_id |-> None, raised |-> FALSE,
                        value |-> (HAS_KEYRING /\ ~delete_raises) \/ key_file # NoKey]
    /\ UNCHANGED <<HAS_KEYRING, is_open, conn, disk, audit, encryptor_key,
                   pipeVars, cryptoVars, scanVars, logVars, callVars, connVars>>

\* the call returns to its caller
KeyReturn ==
    /\ ret.op # "idle"
    /\ ret' = [op |-> "idle"]
    /\ UNCHANGED <<is_open, conn, disk, audit, encryptor_key,
                   pipeVars, cryptoVars, scanVars, keyVars, logVars, callVars, connVars>>

\* a machine with or without the keyring package, no key stored yet; the
\* encryptor at hand was given its key
InitKey ==
    /\ HAS_KEYRING \in BOOLEAN
    /\ keyring_password = NoKey
    /\ key_file = NoKey
    /\ encryptor_key \in Keys
    /\ is_open = FALSE
    /\ conn = EmptyTables
    /\ disk = EmptyTables
    /\ audit = <<>>
    /\ ret = [op |-> "idle"]
    /\ PipelineIdle
    /\ CryptoIdle
    /\ ScanIdle
    /\ LogIdle
    /\ CallIdle
    /\ ConnIdle

NextKey ==
    \/ NewEncryptor
    \/ EncryptorWithKey
    \/ rotate_key
    \/ delete_key
    \/ KeyReturn

SpecKey == InitKey /\ [][NextKey]_vars

\* the keys get_or_create_key can return in the state after the step,
\* whatever the keyring does
NextKeys ==
    {get_or_create_key(HAS_KEYRING', keyring_password', key_file',
                       g, s, FALSE, f1, f2).key :
        g \in KeyringRaises(HAS_KEYRING'), s \in KeyringRaises(HAS_KEYRING'),
        f1 \in Keys, f2 \in Keys}

\* C14: when rotate_key returns the new key K, every location that held a
\* key holds K, and the next get_or_create_key returns K, whether the
\* credential store is there, is not there, or raises on some of its calls.
C14_RotationReachesEveryLocation ==
    [][(ret.op = "idle" /\ ret'.op = "rotate_key" /\ ~ret'.raised) =>
           /\ keyring_password # NoKey => keyring_password' = ret'.value
           /\ key_file # NoKey => key_file' = ret'.value
           /\ NextKeys = {ret'.value}]_vars

----------------------------------------------------------------------------
(* The Encryptor on its own: one encryptor encrypts a string, another (or  *)
(* the same key) decrypts it; and the same through the columns of a match. *)

Encrypt ==
    /\ cpc = "input"
    /\ \E iv \in IVs : ciphertext' = encrypt(key1, iv, plaintext)
    /\ cpc' = "encrypted"
    /\ UNCHANGED <<key1, key2, plaintext, decrypted, columns, finding, pipeVars, storeVars, scanVars, keyVars, logVars, callVars, connVars>>

Decrypt ==
    /\ cpc = "encrypted"
    /\ decrypted' = decrypt(key2, ciphertext)
    /\ cpc' = "decrypted"
    /\ UNCHANGED <<key1, key2, plaintext, ciphertext, columns, finding, pipeVars, storeVars, scanVars, keyVars, logVars, callVars, connVars>>

\* store_scan's two encrypted columns for a match whose value and context
\* are both the string
StoreColumns ==
    /\ cpc = "input"
    /\ \E iv \in IVs :
         columns' = [value_encrypted |-> value_encrypted(key1, iv, plaintext),
                     context_encrypted |-> context_encrypted(key1, iv, plaintext)]
    /\ cpc' = "stored"
    /\ UNCHANGED <<key1, key2, plaintext, ciphertext, decrypted, finding, pipeVars, storeVars, scanVars, keyVars, logVars, callVars, connVars>>

ReadColumns ==
    /\ cpc = "stored"
    /\ finding' = decrypt_columns(key2, columns)
    /\ cpc' = "read"
    /\ UNCHANGED <<key1, key2, plaintext, ciphertext, decrypted, columns, pipeVars, storeVars, scanVars, keyVars, logVars, callVars, connVars>>

InitCrypto ==
    /\ cpc = "input"
    /\ key1 \in Keys
    /\ key2 \in Keys
    /\ plaintext \in Strings
    /\ ciphertext = <<>>
    /\ decrypted = [raised |-> FALSE, value |-> <<>>]
    /\ columns = <<>>
    /\ finding = <<>>
    /\ PipelineIdle
    /\ StoreIdle
    /\ ScanIdle
    /\ KeyIdle
    /\ ConnIdle
    /\ CallIdle
    /\ LogIdle

NextCrypto == Encrypt \/ Decrypt \/ StoreColumns \/ ReadColumns

SpecCrypto == InitCrypto /\ [][NextCrypto]_vars

\* C7, as claimed: decrypting under a different key always raises, also for
\* the empty string.
C7_WrongKeyAlwaysRaises ==
    (cpc = "decrypted" /\ key1 # key2) => decrypted.raised

\* C7, amended: decrypting under a different key raises for every non-empty
\* string and never returns a plaintext; the empty string encrypts to the
\* empty ciphertext, which decrypts to the empty string under every key.
C7_WrongKeyRaisesUnlessEmpty ==
    (cpc = "decrypted" /\ key1 # key2) =>
        /\ plaintext # <<>> => decrypted.raised
        /\ plaintext = <<>> =>
             ciphertext = <<>> /\ decrypted = [raised |-> FALSE, value |-> <<>>]

\* a non-empty string was encrypted under one key and decrypted under another
C7_Witness ==
    /\ cpc = "decrypted"
    /\ key1 # key2
    /\ plaintext # <<>>
    /\ decrypted.raised

\* C8: decrypt(encrypt(s)) under the same key returns exactly s, for the
\* empty string and multibyte text too; and a match value and context that
\* went through store_scan's encrypted columns come back unchanged from a
\* decrypting read under the same key.
C8_RoundTrip ==
    /\ (cpc = "decrypted" /\ key1 = key2) =>
         decrypted = [raised |-> FALSE, value |-> plaintext]
    /\ (cpc = "read" /\ key1 = key2) =>
         finding = [raised |-> FALSE, value |-> plaintext, context |-> plaintext]

\* a string with a multibyte code point has made the round trip
C8_Witness ==
    /\ cpc = "decrypted"
    /\ key1 = key2
    /\ \E i \in 1..Len(plaintext) : plaintext[i] > 127
    /\ ciphertext # plaintext
    /\ decrypted.value = plaintext

\* the prediction flags the match: false positive, at or above the threshold
Flags(prediction) ==
    prediction.is_false_positive /\ prediction.confidence >= tpfp_threshold

\* C11: the true/false-positive filter only adds test-data flags: a match
\* flagged before the step is flagged after it, an unflagged match becomes
\* flagged only on a false-positive prediction at or above the threshold,
\* and the list is otherwise the same: same length, same order, every other
\* field of every match unchanged.
C11_FilterOnlyAddsFlags ==
    pc = "done" =>
        /\ Len(matches) = Len(all_matches)
        /\ \A i \in 1..Len(all_matches) :
              /\ all_matches[i].is_test_data => matches[i].is_test_data
              /\ (~all_matches[i].is_test_data /\ matches[i].is_test_data)
                    => Flags(results.out[i])
              /\ [matches[i] EXCEPT !.is_test_data = all_matches[i].is_test_data]
                    = all_matches[i]

\* the filter has run over a match the pattern detector had flagged and the
\* filter took for a true positive, and over one it flagged itself
C11_Witness ==
    /\ pc = "done"
    /\ \E i, j \in 1..Len(all_matches) :
          /\ all_matches[i].is_test_data /\ ~Flags(results.out[i])
          /\ matches[i].is_test_data
          /\ ~all_matches[j].is_test_data /\ Flags(results.out[j])
          /\ matches[j].is_test_data

\* what the pattern detector returned, among the candidates of classify
regex_only == SelectSeq(all_matches, LAMBDA m : m.detector = "regex")

----------------------------------------------------------------------------
(* scanner/results.py, as the Findings Store reads a ScanResult.           *)

ScanIds == {"s1", "s2"}

\* "078-05", "SSN: 078-05" and "a@b"
Str_ssn == <<48, 55, 56, 45, 48, 53>>
Str_ssn_context == <<83, 83, 78, 58, 32, 48, 55, 56, 45, 48, 53>>
Str_email == <<97, 64, 98>>

\* Match, with the fields store_scan writes
FoundMatch(t, v, ctx, c, test) ==
    [entity_type |-> t, value |-> v, context |-> ctx, confidence |-> c,
     detector |-> "regex", is_test_data |-> test]

\* a real identity number with its context, and a placeholder address
\* without context
Match_ssn == FoundMatch(SSN, Str_ssn, Str_ssn_context, 75, FALSE)
Match_test == FoundMatch(EMAIL, Str_email, <<>>, 90, TRUE)

\* FileResult; scan_file gives a file either matches or an error
FileResult(p, ms, err) ==
    [path |-> p, source |-> "filesystem", matches |-> ms, error |-> err,
     label_recommendation |-> _recommend_label(ms)]

File_a == FileResult("a.txt", <<Match_ssn, Match_test>>, None)
File_b == FileResult("b.txt", <<Match_ssn>>, None)
File_t == FileResult("b.txt", <<Match_test>>, None)
File_e == FileResult("e.bin", <<>>, "Unsupported file type")

\* the scans handed to store_scan: one of two files with three matches, one
\* test data among them, and one of an errored file and a file holding
\* test data only
ScanResults ==
    {[scan_id |-> "s1", files |-> <<File_a, File_b>>],
     [scan_id |-> "s2", files |-> <<File_e, File_t>>]}

\* Match.redacted_value; 42 is "*"
redacted_value(value) ==
    IF Len(value) <= 4 THEN [i \in 1..Len(value) |-> 42]
    ELSE SubSeq(value, 1, 2) \o [i \in 1..(Len(value) - 4) |-> 42]
           \o SubSeq(value, Len(value) - 1, Len(value))

\* Confidence.from_score
confidence_level(score) ==
    IF score >= 95 THEN "very_high"
    ELSE IF score >= 85 THEN "high"
    ELSE IF score >= 70 THEN "medium"
    ELSE "low"

\* a has_sensitive_data that counts test data
has_sensitive_data_AnyMatch(f) == Len(f.matches) > 0

\* FileResult.has_sensitive_data
has_sensitive_data(f) ==
    Len(f.matches) > 0 /\ ~(\A i \in 1..Len(f.matches) : f.matches[i].is_test_data)

RECURSIVE Sum(_)
Sum(ns) == IF ns = <<>> THEN 0 ELSE Head(ns) + Sum(Tail(ns))

\* ScanResult.total_files, files_with_matches, files_errored, total_matches
total_files(scan) == Len(scan.files)

files_with_matches(scan) ==
    Sum([i \in 1..Len(scan.files) |-> IF has_sensitive_data(scan.files[i]) THEN 1 ELSE 0])

files_errored(scan) ==
    Sum([i \in 1..Len(scan.files) |-> IF scan.files[i].error # None THEN 1 ELSE 0])

\* a total that counts test data too
total_matches_All(scan) ==
    Sum([i \in 1..Len(scan.files) |-> Len(scan.files[i].matches)])

total_matches(scan) ==
    Sum([i \in 1..Len(scan.files) |-> Len(real_matches(scan.files[i].matches))])

----------------------------------------------------------------------------
(* scanner/scanner.py: Scanner.scan and Scanner.scan_file; and the         *)
(* operations of a ScanResult (scanner/results.py).                        *)

\* what happens to a file in scan_file: the step that fails, "empty" for a
\* text that is empty or blank, "ok" for a text that is classified
Fates == {"stat_error", "too_large", "unsupported", "extraction_error",
          "extraction_failed", "empty", "detection_failed", "ok"}

\* the error scan_file records for a fate, None for none
ErrorOf(fate) ==
    CASE fate = "stat_error" -> "Cannot access file"
      [] fate = "too_large" -> "File too large"
      [] fate = "unsupported" -> "Unsupported file type"
      [] fate = "extraction_error" -> "ExtractionError"
      [] fate = "extraction_failed" -> "Extraction failed"
      [] fate = "detection_failed" -> "Detection failed"
      [] OTHER -> None

\* the matches classify finds, or would find, in the text of a file
MatchLists == {<<>>, <<Match_test>>, <<Match_ssn, Match_test>>}

\* the i-th path _iter_files yields
PathOf(i) ==
    CASE i = 1 -> "a.txt"
      [] i = 2 -> "b.txt"
      [] i = 3 -> "c.txt"
      [] OTHER -> "d.txt"

\* a discovered file: its path, its fate, the matches in its text
DiscoveredFile(i, fate, ms) == [path |-> PathOf(i), fate |-> fate, found |-> ms]

FileFacts ==
    {<<fate, <<Match_ssn, Match_test>>>> : fate \in Fates}
        \cup {<<"ok", ms>> : ms \in MatchLists}

\* list(self._iter_files(path_obj))
Discoveries ==
    {[i \in 1..Len(facts) |-> DiscoveredFile(i, facts[i][1], facts[i][2])] :
        facts \in SeqsUpTo(FileFacts, MaxFiles)}

\* a scan_file that returns what was found before the failure
scan_file_KeepsMatches(f) == FileResult(f.path, f.found, ErrorOf(f.fate))

\* Scanner.scan_file: every failure returns a FileResult with the error and
\* the default matches and label; an empty text returns one without
\* matches; a classified text returns the matches and label of classify
scan_file(f) ==
    IF ErrorOf(f.fate) # None THEN FileResult(f.path, <<>>, ErrorOf(f.fate))
    ELSE IF f.fate = "empty" THEN FileResult(f.path, <<>>, None)
    ELSE FileResult(f.path, f.found, None)

\* ScanResult.add_file
add_file(r, file_result) == [r EXCEPT !.files = Append(@, file_result)]

\* a complete that keeps a completion time already set
complete_Once(r, t) ==
    IF r.completed_at = NoTime THEN [r EXCEPT !.completed_at = Time(t)] ELSE r

\* ScanResult.complete: self.completed_at = datetime.now()
complete(r, t) == [r EXCEPT !.completed_at = Time(t)]

\* Scanner.scan, the loop over files from index i on
RECURSIVE ScanLoop(_, _, _)
ScanLoop(fs, i, r) ==
    IF i > Len(fs) THEN r
    ELSE ScanLoop(fs, i + 1, add_file(r, scan_file(fs[i])))

\* Scanner.scan(path): a new ScanResult, the loop, complete
Scanner_scan ==
    /\ scan_op = "idle"
    /\ \E fs \in Discoveries, t \in now..MaxClock :
         /\ discovered' = fs
         /\ scan_result' = complete(ScanLoop(fs, 1, NoScanResult), t)
         /\ now' = t
    /\ scan_op' = "scan"
    /\ UNCHANGED <<pipeVars, cryptoVars, storeVars, keyVars, logVars, callVars, connVars>>

\* result.add_file(file_result), called on the ScanResult by its holder
AddFile ==
    /\ Len(scan_result.files) < MaxFiles
    /\ \E fact \in FileFacts :
         scan_result' =
             add_file(scan_result,
                      scan_file(DiscoveredFile(Len(scan_result.files) + 1,
                                               fact[1], fact[2])))
    /\ scan_op' = "add_file"
    /\ UNCHANGED <<discovered, now, pipeVars, cryptoVars, storeVars, keyVars, logVars, callVars, connVars>>

\* result.complete(), called on the ScanResult by its holder
Complete ==
    /\ \E t \in now..MaxClock :
         /\ scan_result' = complete(scan_result, t)
         /\ now' = t
    /\ scan_op' = "complete"
    /\ UNCHANGED <<discovered, pipeVars, cryptoVars, storeVars, keyVars, logVars, callVars, connVars>>

\* match.is_test_data of a contained match is assigned the other value
FlipTestData ==
    /\ \E i \in 1..Len(scan_result.files) :
       \E j \in 1..Len(scan_result.files[i].matches) :
         scan_result' =
             [scan_result EXCEPT !.files[i].matches[j].is_test_data = ~@]
    /\ scan_op' = "flip"
    /\ UNCHANGED <<discovered, now, pipeVars, cryptoVars, storeVars, keyVars, logVars, callVars, connVars>>

\* ScanResult(): no files, completed_at None
InitScan ==
    /\ ScanIdle
    /\ PipelineIdle
    /\ CryptoIdle
    /\ StoreIdle
    /\ KeyIdle
    /\ ConnIdle
    /\ CallIdle
    /\ LogIdle

NextScan == Scanner_scan \/ AddFile \/ Complete \/ FlipTestData

SpecScan == InitScan /\ [][NextScan]_vars

\* ClassificationResult.has_sensitive_data
result_has_sensitive_data(ms) == \E i \in 1..Len(ms) : ~ms[i].is_test_data

\* the FileResult of a file records a failure
Errored(file_result) == file_result.error # None

\* C13: scan returns a ScanResult with completed_at set and one FileResult
\* per discovered file, in discovery order, whatever fails for which file;
\* a FileResult with an error has no matches and no label recommendation,
\* and every failure is recorded as an error.
C13_ScanAlwaysCompletes ==
    scan_op = "scan" =>
        /\ scan_result.completed_at # NoTime
        /\ Len(scan_result.files) = Len(discovered)
        /\ \A i \in 1..Len(discovered) :
              LET file_result == scan_result.files[i]
              IN  /\ file_result.path = discovered[i].path
                  /\ Errored(file_result) <=>
                        discovered[i].fate \notin {"ok", "empty"}
                  /\ Errored(file_result) =>
                        /\ file_result.matches = <<>>
                        /\ file_result.label_recommendation = None

\* a scan of two files: the detection failed for the first, the second has
\* matches
C13_Witness ==
    /\ scan_op = "scan"
    /\ Len(discovered) = 2
    /\ discovered[1].fate = "detection_failed"
    /\ scan_result.files[1].error = "Detection failed"
    /\ scan_result.files[2].matches # <<>>

----------------------------------------------------------------------------
(* storage/audit.py: AuditLog.                                             *)

DB_CREATE == "db_create"
DB_OPEN == "db_open"
DB_CLOSE == "db_close"
SCAN_START == "scan_start"
FINDING_STORE == "finding_store"
FINDING_READ == "finding_read"
FINDING_DELETE == "finding_delete"

\* AuditEntry; the timestamp, user and details of an entry are left out
AuditEntry(action, record_count, scan_id) ==
    [action |-> action, record_count |-> record_count, scan_id |-> scan_id,
     success |-> TRUE]

\* a log that opens its file for writing, not for appending
log_Truncating(lines, entry) == <<entry>>

\* AuditLog.log: open(self.log_path, "a") and write one line
log(lines, entry) == Append(lines, entry)

----------------------------------------------------------------------------
(* storage/database.py: FindingsDatabase.  The tables are sets of rows;    *)
(* seq_files and seq_matches are the AUTOINCREMENT counters.  conn is what *)
(* the connection sees (its open transaction included), disk what has been *)
(* committed.                                                              *)

ScanRow(scan) ==
    [scan_id |-> scan.scan_id,
     total_files |-> total_files(scan),
     files_with_matches |-> files_with_matches(scan),
     files_errored |-> files_errored(scan),
     total_matches |-> total_matches(scan)]

FileRow(id, scan, f) ==
    [id |-> id, scan_id |-> scan.scan_id, path |-> f.path,
     source |-> f.source,
     has_sensitive_data |-> IF has_sensitive_data(f) THEN 1 ELSE 0,
     label_recommendation |-> f.label_recommendation,
     error |-> f.error]

\* the IV Fernet draws for a token, here by the row it is written to
IVOf(id) == id % 2

MatchRow(id, file_id, scan, m, key) ==
    [id |-> id, file_id |-> file_id, scan_id |-> scan.scan_id,
     entity_type |-> m.entity_type,
     value_encrypted |-> value_encrypted(key, IVOf(id), m.value),
     value_redacted |-> redacted_value(m.value),
     confidence |-> m.confidence,
     confidence_level |-> confidence_level(m.confidence),
     detector |-> m.detector,
     context_encrypted |-> context_encrypted(key, IVOf(id), m.context),
     is_test_data |-> IF m.is_test_data THEN 1 ELSE 0]

\* the statements of store_scan in the order it runs them: the scan insert,
\* per file the file insert and its match inserts, the commit, the audit
\* entry
Statements(scan) ==
    <<[kind |-> "scan", f |-> 0, m |-> 0]>>
        \o Flatten([i \in 1..Len(scan.files) |->
               <<[kind |-> "file", f |-> i, m |-> 0]>>
                   \o [j \in 1..Len(scan.files[i].matches) |->
                          [kind |-> "match", f |-> i, m |-> j]]])
        \o <<[kind |-> "commit", f |-> 0, m |-> 0],
             [kind |-> "audit", f |-> 0, m |-> 0]>>

\* a record_count that reports the scan's real matches only
store_record_count_Real(scan, match_count) == total_matches(scan)

\* store_scan: record_count=match_count
store_record_count(scan, match_count) == match_count

\* one statement of store_scan; st carries the tables, the audit log,
\* cursor.lastrowid (file_id) and match_count
Statement(st, scan, stmt, key) ==
    CASE stmt.kind = "scan" ->
           [st EXCEPT !.conn.scans = @ \cup {ScanRow(scan)}]
      [] stmt.kind = "file" ->
           LET id == st.conn.seq_files + 1
           IN  [st EXCEPT !.conn.files = @ \cup {FileRow(id, scan, scan.files[stmt.f])},
                          !.conn.seq_files = id,
                          !.file_id = id]
      [] stmt.kind = "match" ->
           LET id == st.conn.seq_matches + 1
           IN  [st EXCEPT !.conn.matches =
                              @ \cup {MatchRow(id, st.file_id, scan,
                                               scan.files[stmt.f].matches[stmt.m],
                                               key)},
                          !.conn.seq_matches = id,
                          !.match_count = @ + 1]
      [] stmt.kind = "commit" ->
           [st EXCEPT !.disk = st.conn]
      [] stmt.kind = "audit" ->
           [st EXCEPT !.audit =
               log(@, AuditEntry(FINDING_STORE,
                                 store_record_count(scan, st.match_count),
                                 scan.scan_id))]

\* the statements i..last of store_scan, run in order
RECURSIVE Run(_, _, _, _, _, _)
Run(st, scan, stmts, i, last, key) ==
    IF i > last THEN st
    ELSE Run(Statement(st, scan, stmts[i], key), scan, stmts, i + 1, last, key)

\* the statements that raise in the model: the first of each kind
FailPoints(stmts) ==
    {i \in 1..Len(stmts) : \A j \in 1..(i - 1) : stmts[j].kind # stmts[i].kind}

\* store_scan(scan_result).  A statement may raise: the scan insert does
\* when the scan_id is already in the table (PRIMARY KEY), any statement
\* may for a reason outside the program (I/O, encryption).  fail_at names
\* the statement that raises, 0 for none.  Nothing rolls back what ran
\* before it.
store_scan ==
    /\ is_open
    /\ ret.op = "idle"
    /\ Len(audit) < MaxAudit
    /\ \E scan \in ScanResults :
       \E fail_at \in {0} \cup FailPoints(Statements(scan)) :
         LET stmts == Statements(scan)
             duplicate == \E r \in conn.scans : r.scan_id = scan.scan_id
             raises_at == IF duplicate THEN 1 ELSE fail_at
             last == IF raises_at = 0 THEN Len(stmts) ELSE raises_at - 1
             st == Run([conn |-> conn, disk |-> disk, audit |-> audit,
                        file_id |-> 0, match_count |-> 0],
                       scan, stmts, 1, last, encryptor_key)
         IN  /\ conn' = st.conn
             /\ disk' = st.disk
             /\ audit' = st.audit
             /\ ret' = [op |-> "store_scan", scan_id |-> scan.scan_id,
                        raised |-> raises_at # 0]
    /\ UNCHANGED <<is_open, encryptor_key, pipeVars, cryptoVars, scanVars, keyVars, logVars, callVars, connVars>>

\* a delete that leaves the file rows of the scan
WithoutScan_KeepsFiles(t, scan_id) ==
    [t EXCEPT !.matches = {r \in @ : r.scan_id # scan_id},
              !.scans = {r \in @ : r.scan_id # scan_id}]

\* the rows of a scan, or of all scans, taken out of the tables
WithoutScan(t, scan_id) ==
    [t EXCEPT !.matches = {r \in @ : r.scan_id # scan_id},
              !.files = {r \in @ : r.scan_id # scan_id},
              !.scans = {r \in @ : r.scan_id # scan_id}]

\* a purge that leaves the matches table alone
WithoutRows_KeepsMatches(t) == [t EXCEPT !.files = {}, !.scans = {}]

WithoutRows(t) == [t EXCEPT !.matches = {}, !.files = {}, !.scans = {}]

\* delete_scan(scan_id)
delete_scan ==
    /\ is_open
    /\ ret.op = "idle"
    /\ Len(audit) < MaxAudit
    /\ \E scan_id \in ScanIds :
         LET match_count == Cardinality({r \in conn.matches : r.scan_id = scan_id})
             after == WithoutScan(conn, scan_id)
         IN  /\ conn' = after
             /\ disk' = after
             /\ audit' = log(audit, AuditEntry(FINDING_DELETE, match_count, scan_id))
             /\ ret' = [op |-> "delete_scan", scan_id |-> scan_id,
                        raised |-> FALSE, value |-> match_count]
    /\ UNCHANGED <<is_open, encryptor_key, pipeVars, cryptoVars, scanVars, keyVars, logVars, callVars, connVars>>

\* purge_all()
purge_all ==
    /\ is_open
    /\ ret.op = "idle"
    /\ Len(audit) < MaxAudit
    /\ LET total == Cardinality(conn.matches)
           after == WithoutRows(conn)
       IN  /\ conn' = after
           /\ disk' = after
           /\ audit' = log(audit, AuditEntry(FINDING_DELETE, total, None))
           /\ ret' = [op |-> "purge_all", scan_id |-> None,
                      raised |-> FALSE, value |-> total]
    /\ UNCHANGED <<is_open, encryptor_key, pipeVars, cryptoVars, scanVars, keyVars, logVars, callVars, connVars>>

\* close(): the entry, then conn.close(), which drops an open transaction
close ==
    /\ is_open
    /\ ret.op = "idle"
    /\ Len(audit) < MaxAudit
    /\ audit' = log(audit, AuditEntry(DB_CLOSE, 0, None))
    /\ conn' = disk
    /\ is_open' = FALSE
    /\ ret' = [op |-> "close", scan_id |-> None, raised |-> FALSE]
    /\ UNCHANGED <<disk, encryptor_key, pipeVars, cryptoVars, scanVars, keyVars, logVars, callVars, connVars>>

\* FindingsDatabase(db_path, encryptor) on the existing file
open ==
    /\ ~is_open
    /\ ret.op = "idle"
    /\ Len(audit) < MaxAudit
    /\ \E encryptor \in Keys : encryptor_key' = encryptor
    /\ conn' = disk
    /\ is_open' = TRUE
    /\ audit' = log(audit, AuditEntry(DB_OPEN, 0, None))
    /\ ret' = [op |-> "open", scan_id |-> None, raised |-> FALSE]
    /\ UNCHANGED <<disk, pipeVars, cryptoVars, scanVars, keyVars, logVars, callVars, connVars>>

\* AuditLog.log called on its own
audit_log ==
    /\ ret.op = "idle"
    /\ Len(audit) < MaxAudit
    /\ audit' = log(audit, AuditEntry(SCAN_START, 0, None))
    /\ ret' = [op |-> "log", scan_id |-> None, raised |-> FALSE]
    /\ UNCHANGED <<is_open, conn, disk, encryptor_key, pipeVars, cryptoVars, scanVars, keyVars, logVars, callVars, connVars>>

\* the operations that read the store
ReadOps == {"get_scan", "list_scans", "get_files", "get_findings",
            "get_findings_by_file", "get_stats"}

\* get_scan(scan_id): nothing is logged when the scan is not found; the
\* entry of a found scan carries log's default record_count
get_scan ==
    /\ is_open
    /\ ret.op = "idle"
    /\ \E scan_id \in ScanIds :
         LET rows == {r \in conn.scans : r.scan_id = scan_id}
         IN  IF rows = {}
             THEN /\ audit' = audit
                  /\ ret' = [op |-> "get_scan", scan_id |-> scan_id,
                             raised |-> FALSE, value |-> {}, returned |-> 0]
             ELSE /\ Len(audit) < MaxAudit
                  /\ audit' = log(audit, AuditEntry(FINDING_READ, 0, scan_id))
                  /\ ret' = [op |-> "get_scan", scan_id |-> scan_id,
                             raised |-> FALSE, value |-> rows, returned |-> 1]
    /\ UNCHANGED <<is_open, conn, disk, encryptor_key, pipeVars, cryptoVars, scanVars, keyVars, logVars, callVars, connVars>>

\* list_scans()
list_scans ==
    /\ is_open
    /\ ret.op = "idle"
    /\ ret' = [op |-> "list_scans", scan_id |-> None, raised |-> FALSE,
               value |-> conn.scans, returned |-> Cardinality(conn.scans)]
    /\ UNCHANGED <<is_open, conn, disk, audit, encryptor_key, pipeVars, cryptoVars, scanVars, keyVars, logVars, callVars, connVars>>

\* get_files, "file_dict["file_path"] = file_dict.pop("path")"
file_dict(row) ==
    [k \in ((DOMAIN row) \ {"path"}) \cup {"file_path"} |->
        IF k = "file_path" THEN row.path ELSE row[k]]

\* get_files(scan_id, only_with_matches)
get_files ==
    /\ is_open
    /\ ret.op = "idle"
    /\ \E scan_id \in ScanIds, only_with_matches \in BOOLEAN :
         LET rows == {r \in conn.files :
                         /\ r.scan_id = scan_id
                         /\ only_with_matches => r.has_sensitive_data = 1}
         IN  ret' = [op |-> "get_files", scan_id |-> scan_id, raised |-> FALSE,
                     value |-> {file_dict(r) : r \in rows},
                     returned |-> Cardinality(rows)]
    /\ UNCHANGED <<is_open, conn, disk, audit, encryptor_key, pipeVars, cryptoVars, scanVars, keyVars, logVars, callVars, connVars>>

\* a finding that keeps the encrypted columns of its row
Finding_KeepEncrypted(m, f, dec, key) ==
    LET row == m @@ [file_path |-> f.path, file_source |-> f.source]
        plain == decrypt_columns(key, m)
    IN  IF dec
        THEN [value |-> plain.value, context |-> plain.context] @@ row
        ELSE row

\* get_findings and get_findings_by_file, the body of "for row in cursor":
\* dict(row) of the joined row, value and context if decrypt, the two
\* encrypted columns deleted
Finding(m, f, dec, key) ==
    LET row == m @@ [file_path |-> f.path, file_source |-> f.source]
        plain == decrypt_columns(key, m)
        with_plain == IF dec
                      THEN [value |-> plain.value, context |-> plain.context] @@ row
                      ELSE row
    IN  [k \in (DOMAIN with_plain) \ {"value_encrypted", "context_encrypted"}
            |-> with_plain[k]]

\* the rows of "FROM matches m JOIN files f ON m.file_id = f.id", as pairs
Joined(t) ==
    {<<m, f>> \in t.matches \X t.files : m.file_id = f.id}

\* get_findings' parameters: scan_id, entity_type, min_confidence,
\* include_test_data
Filters(scan_id, entity_type, min_confidence, include_test_data) ==
    [scan_id |-> scan_id, entity_type |-> entity_type,
     min_confidence |-> min_confidence,
     include_test_data |-> include_test_data]

\* the filters get_findings is called with: the defaults, each filter on
\* its own, with and without test data, and all of them together
FindingFilters ==
    {Filters(None, None, 0, FALSE), Filters(None, None, 0, TRUE),
     Filters("s1", None, 0, FALSE), Filters(None, EMAIL, 0, TRUE),
     Filters(None, None, 80, TRUE), Filters("s1", EMAIL, 80, TRUE)}

\* a query without "AND m.is_test_data = 0"
Selected_WithTestData(t, flt) ==
    {r \in Joined(t) :
        /\ r[1].confidence >= flt.min_confidence
        /\ flt.scan_id # None => r[1].scan_id = flt.scan_id
        /\ flt.entity_type # None => r[1].entity_type = flt.entity_type}

\* get_findings, the WHERE clause it builds
Selected(t, flt) ==
    {r \in Joined(t) :
        /\ r[1].confidence >= flt.min_confidence
        /\ flt.scan_id # None => r[1].scan_id = flt.scan_id
        /\ flt.entity_type # None => r[1].entity_type = flt.entity_type
        /\ ~flt.include_test_data => r[1].is_test_data = 0}

\* the rows whose decryption raises under the key
Raising(rows, dec, key) ==
    {r \in rows : dec /\ decrypt_columns(key, r[1]).raised}

\* get_findings(scan_id, entity_type, min_confidence, include_test_data,
\* decrypt), a generator.  The caller either iterates it to its end: to the
\* audit entry after the loop, or to the row whose decryption raises, with
\* the rows the cursor gave before that one delivered (the cursor's order
\* is not specified); or abandons it at a yield, after any number of
\* findings, none when nothing of it ever ran.
get_findings ==
    /\ is_open
    /\ ret.op = "idle"
    /\ \E flt \in FindingFilters, dec \in BOOLEAN, iterated \in BOOLEAN :
         LET rows == Selected(conn, flt)
             bad == Raising(rows, dec, encryptor_key)
         IN  \E given \in IF ~iterated THEN SUBSET (rows \ bad)
                          ELSE IF bad = {} THEN {rows}
                          ELSE SUBSET (rows \ bad) :
               /\ IF iterated /\ bad = {}
                  THEN /\ Len(audit) < MaxAudit
                       /\ audit' = log(audit, AuditEntry(FINDING_READ,
                                                         Cardinality(given),
                                                         flt.scan_id))
                  ELSE audit' = audit
               /\ ret' = [op |-> "get_findings", scan_id |-> flt.scan_id,
                          raised |-> iterated /\ bad # {},
                          decrypt |-> dec, iterated |-> iterated,
                          filters |-> flt,
                          value |-> {Finding(r[1], r[2], dec, encryptor_key) :
                                        r \in given},
                          returned |-> Cardinality(given)]
    /\ UNCHANGED <<is_open, conn, disk, encryptor_key, pipeVars, cryptoVars, scanVars, keyVars, logVars, callVars, connVars>>

\* the paths get_findings_by_file is asked for
FilePaths == {"a.txt", "b.txt"}

\* get_findings_by_file(file_path, decrypt): the list, or the exception of
\* a decryption
get_findings_by_file ==
    /\ is_open
    /\ ret.op = "idle"
    /\ \E file_path \in FilePaths, dec \in BOOLEAN :
         LET rows == {r \in Joined(conn) : r[2].path = file_path}
             bad == Raising(rows, dec, encryptor_key)
             found == IF bad # {} THEN {}
                        ELSE {Finding(r[1], r[2], dec, encryptor_key) : r \in rows}
         IN  ret' = [op |-> "get_findings_by_file", scan_id |-> None,
                     raised |-> bad # {}, decrypt |-> dec,
                     file_path |-> file_path, value |-> found,
                     returned |-> IF bad # {} THEN 0 ELSE Cardinality(rows)]
    /\ UNCHANGED <<is_open, conn, disk, audit, encryptor_key, pipeVars, cryptoVars, scanVars, keyVars, logVars, callVars, connVars>>

\* get_stats()
get_stats ==
    /\ is_open
    /\ ret.op = "idle"
    /\ LET real == {r \in conn.matches : r.is_test_data = 0}
           types == {r.entity_type : r \in real}
       IN  ret' = [op |-> "get_stats", scan_id |-> None, raised |-> FALSE,
                   value |-> [scans |-> Cardinality(conn.scans),
                              files |-> Cardinality(conn.files),
                              matches |-> Cardinality(conn.matches),
                              real_matches |-> Cardinality(real),
                              test_data_matches |->
                                  Cardinality(conn.matches) - Cardinality(real),
                              by_entity_type |->
                                  [t \in types |->
                                      Cardinality({r \in real : r.entity_type = t})]],
                   returned |-> 1]
    /\ UNCHANGED <<is_open, conn, disk, audit, encryptor_key, pipeVars, cryptoVars, scanVars, keyVars, logVars, callVars, connVars>>

\* the call returns to its caller
Return ==
    /\ ret.op # "idle"
    /\ ret' = [op |-> "idle"]
    /\ UNCHANGED <<is_open, conn, disk, audit, encryptor_key, pipeVars, cryptoVars, scanVars, keyVars, logVars, callVars, connVars>>

\* FindingsDatabase(db_path) on a new file, with a new key
Init ==
    /\ is_open = TRUE
    /\ conn = EmptyTables
    /\ disk = EmptyTables
    /\ audit = <<AuditEntry(DB_CREATE, 0, None)>>
    /\ encryptor_key = 1
    /\ ret = [op |-> "idle"]
    /\ PipelineIdle
    /\ CryptoIdle
    /\ ScanIdle
    /\ KeyIdle
    /\ ConnIdle
    /\ CallIdle
    /\ LogIdle

Next ==
    \/ store_scan
    \/ delete_scan
    \/ purge_all
    \/ close
    \/ open
    \/ audit_log
    \/ get_scan
    \/ list_scans
    \/ get_files
    \/ get_findings
    \/ get_findings_by_file
    \/ get_stats
    \/ Return

Spec == Init /\ [][Next]_vars

----------------------------------------------------------------------------
(* The Findings Store and its audit log.                                   *)

\* the rows of the tables, the AUTOINCREMENT counters left aside
Rows(t) == [scans |-> t.scans, files |-> t.files, matches |-> t.matches]

\* the step is a call of one of the operations
Calls(ops) == ret.op = "idle" /\ ret'.op \in ops

\* the log after the step is the log before it and one more entry
OneEntryAppended ==
    /\ Len(audit') = Len(audit) + 1
    /\ SubSeq(audit', 1, Len(audit)) = audit

\* C3: a store_scan call that fails leaves no row of its scan behind: the
\* rows the connection sees and the rows committed are those of before
\* the call.
C3_StoreScanAtomic ==
    [][(Calls({"store_scan"}) /\ ret'.raised) =>
           (Rows(conn') = Rows(conn) /\ Rows(disk') = Rows(disk))]_vars

\* C4: each successful store_scan, delete_scan and purge_all appends
\* exactly one entry, FINDING_STORE or FINDING_DELETE, whose record_count
\* is the number of match rows the call inserted or removed; and a store
\* entry of a scan and the next delete entry of that scan carry the same
\* record_count.
C4_OneEntryPerMutation ==
    /\ [][(Calls({"store_scan"}) /\ ~ret'.raised) =>
             /\ OneEntryAppended
             /\ audit'[Len(audit')] =
                    AuditEntry(FINDING_STORE,
                               Cardinality(conn'.matches \ conn.matches),
                               ret'.scan_id)]_vars
    /\ [][(Calls({"delete_scan", "purge_all"}) /\ ~ret'.raised) =>
             /\ OneEntryAppended
             /\ audit'[Len(audit')] =
                    AuditEntry(FINDING_DELETE,
                               Cardinality(conn.matches \ conn'.matches),
                               ret'.scan_id)]_vars
    /\ [](\A i \in 1..Len(audit) : \A j \in (i + 1)..Len(audit) :
            (/\ audit[i].action = FINDING_STORE
             /\ audit[j].action = FINDING_DELETE
             /\ audit[j].scan_id = audit[i].scan_id
             /\ \A k \in (i + 1)..(j - 1) :
                  \/ audit[k].action \notin {FINDING_STORE, FINDING_DELETE}
                  \/ audit[k].scan_id \notin {audit[i].scan_id, None})
            => audit[j].record_count = audit[i].record_count)

\* a scan of three matches, one of them test data, was stored and then
\* deleted
C4_Witness ==
    /\ Len(audit) >= 3
    /\ \E i \in 1..(Len(audit) - 1) :
         /\ audit[i] = AuditEntry(FINDING_STORE, 3, "s1")
         /\ audit[i + 1] = AuditEntry(FINDING_DELETE, 3, "s1")
    /\ conn.matches = {}

\* C5: every call of a read operation appends exactly one entry whose
\* record_count is the number of records the call returned.
C5_EveryReadAudited ==
    [][Calls(ReadOps) =>
           /\ OneEntryAppended
           /\ audit'[Len(audit')].action = FINDING_READ
           /\ audit'[Len(audit')].record_count = ret'.returned]_vars

\* C6: the audit log is append-only: every step leaves the log as it was
\* or appends to it, a log call appends exactly one entry, and no step,
\* purge_all and close among them, rewrites, removes or truncates an entry.
C6_AppendOnly ==
    /\ [][/\ Len(audit') >= Len(audit)
          /\ SubSeq(audit', 1, Len(audit)) = audit]_vars
    /\ [][Calls({"log", "purge_all", "delete_scan", "close", "open"}) =>
             OneEntryAppended]_vars

\* purge_all has emptied a store that held matches, and the entries of
\* before are still in the log
C6_Witness ==
    /\ ret.op = "purge_all"
    /\ ret.value > 0
    /\ Len(audit) >= 3
    /\ audit[1].action = DB_CREATE
    /\ audit[Len(audit) - 1].action = FINDING_STORE
    /\ audit[Len(audit)].action = FINDING_DELETE

\* the operations that return findings
FindingOps == {"get_findings", "get_findings_by_file"}

\* C9: a finding read with decrypt=False has none of the fields value,
\* context, value_encrypted and context_encrypted and has value_redacted;
\* a finding read with decrypt=True has neither of the encrypted fields.
C9_NoCiphertextReturned ==
    ret.op \in FindingOps =>
        \A f \in ret.value :
            /\ "value_encrypted" \notin DOMAIN f
            /\ "context_encrypted" \notin DOMAIN f
            /\ "value_redacted" \in DOMAIN f
            /\ ~ret.decrypt => ("value" \notin DOMAIN f /\ "context" \notin DOMAIN f)

\* findings were read without decryption, one of them of a match stored
\* with a context
C9_Witness ==
    /\ ret.op \in FindingOps
    /\ ~ret.decrypt
    /\ \E f \in ret.value :
         /\ f.value_redacted = redacted_value(Str_ssn)
         /\ f.file_path = "a.txt"

----------------------------------------------------------------------------
(* Key rotation over a store that holds findings.                          *)

NextRotate ==
    \/ store_scan
    \/ rotate_key
    \/ get_findings
    \/ get_findings_by_file
    \/ Return

SpecRotate == Init /\ [][NextRotate]_vars

\* the key whose MAC the value_encrypted token of a match row carries
KeyOf(row) ==
    LET token == urlsafe_b64decode(row.value_encrypted.text)
    IN  token[Len(token)]

\* the joined rows the read in ret asked for
Asked ==
    IF ret.op = "get_findings" THEN Selected(conn, ret.filters)
    ELSE {r \in Joined(conn) : r[2].path = ret.file_path}

\* those of them written under another key than the encryptor's
Stale == {r \in Asked : KeyOf(r[1]) # encryptor_key}

\* the read in ret ran its query and loop
Ran == ret.op = "get_findings_by_file" \/ ret.iterated

\* C15: rotate_key changes no row of the store; a decrypt=True read that
\* comes to a record written under the key of before the rotation raises
\* and returns no value of such a record; a decrypt=False read of the same
\* records succeeds and returns them all.
C15_RotationLeavesDataAlone ==
    /\ [][(ret.op = "idle" /\ ret'.op = "rotate_key") =>
             (conn' = conn /\ disk' = disk)]_vars
    /\ []((ret.op \in FindingOps /\ Ran /\ ret.decrypt /\ Stale # {}) =>
             /\ ret.raised
             /\ \A f \in ret.value : \A r \in Stale : f.id # r[1].id)
    /\ []((ret.op \in FindingOps /\ Ran /\ ~ret.decrypt) =>
             /\ ~ret.raised
             /\ ret.returned = Cardinality(Asked)
             /\ {f.id : f \in ret.value} = {r[1].id : r \in Asked})

\* after a rotation to another key, a decrypting read of a stored scan
\* has raised
C15_Witness ==
    /\ ret.op = "get_findings"
    /\ ret.iterated
    /\ ret.decrypt
    /\ ret.raised
    /\ Stale # {}
    /\ key_file = encryptor_key

----------------------------------------------------------------------------
(* delete_scan and purge_all.                                              *)

\* the rows of a table that belong to the scan
OfScan(table, scan_id) == {r \in table : r.scan_id = scan_id}

\* the matches of a ScanResult over all its files, test data included
MatchesIn(sr) == Sum([i \in 1..Len(sr.files) |-> Len(sr.files[i].matches)])

\* the log says the scan is stored: a store entry no delete entry follows
LoggedStored(scan_id) ==
    \E i \in 1..Len(audit) :
        /\ audit[i].action = FINDING_STORE
        /\ audit[i].scan_id = scan_id
        /\ \A k \in (i + 1)..Len(audit) :
              ~(audit[k].action = FINDING_DELETE
                  /\ audit[k].scan_id \in {scan_id, None})

\* C16: delete_scan(id) removes the match rows, file rows and scan row of
\* id and no row of another scan, and returns the number of match rows id
\* had: the number of matches of the ScanResult for a stored scan, test
\* data included, 0 for an unknown id; purge_all removes every row and
\* returns the number of all match rows; get_scan of an id without a scan
\* row returns nothing.
C16_DeleteRemovesExactlyTheScan ==
    /\ [][(ret.op = "idle" /\ ret'.op = "delete_scan") =>
             /\ conn'.matches = conn.matches \ OfScan(conn.matches, ret'.scan_id)
             /\ conn'.files = conn.files \ OfScan(conn.files, ret'.scan_id)
             /\ conn'.scans = conn.scans \ OfScan(conn.scans, ret'.scan_id)
             /\ Rows(disk') = Rows(conn')
             /\ ret'.value = Cardinality(OfScan(conn.matches, ret'.scan_id))
             /\ OfScan(conn.scans, ret'.scan_id) = {} => ret'.value = 0
             /\ \A sr \in ScanResults :
                  (sr.scan_id = ret'.scan_id /\ LoggedStored(sr.scan_id))
                      => ret'.value = MatchesIn(sr)]_vars
    /\ [][(ret.op = "idle" /\ ret'.op = "purge_all") =>
             /\ Rows(conn') = [scans |-> {}, files |-> {}, matches |-> {}]
             /\ Rows(disk') = Rows(conn')
             /\ ret'.value = Cardinality(conn.matches)]_vars
    /\ [](ret.op = "get_scan" =>
             (ret.value = {} <=> OfScan(conn.scans, ret.scan_id) = {}))

\* a stored scan of three matches was deleted while the rows of another
\* scan stayed
C16_Witness ==
    /\ ret.op = "delete_scan"
    /\ ret.value = 3
    /\ conn.scans # {}
    /\ conn.matches # {}
    /\ OfScan(conn.scans, ret.scan_id) = {}

----------------------------------------------------------------------------
(* get_findings and its filters.                                           *)

\* the match rows the filters of the read in ret let through, as the claim
\* states them
Wanted ==
    {m \in conn.matches :
        /\ m.confidence >= ret.filters.min_confidence
        /\ ret.filters.scan_id # None => m.scan_id = ret.filters.scan_id
        /\ ret.filters.entity_type # None => m.entity_type = ret.filters.entity_type
        /\ ~ret.filters.include_test_data => m.is_test_data = 0}

\* C17: get_findings, run to its end, returns the stored match rows that
\* satisfy all its filters and no others, each once and with the path of
\* its own file; without include_test_data it returns no match whose
\* is_test_data is set.
C17_FindingsAreTheFilteredRows ==
    (ret.op = "get_findings" /\ ret.iterated /\ ~ret.raised) =>
        /\ {f.id : f \in ret.value} = {m.id : m \in Wanted}
        /\ ret.returned = Cardinality(Wanted)
        /\ Cardinality(ret.value) = Cardinality(Wanted)
        /\ \A f \in ret.value :
              /\ \E m \in Wanted :
                    /\ m.id = f.id
                    /\ f.entity_type = m.entity_type
                    /\ f.confidence = m.confidence
                    /\ f.detector = m.detector
              /\ \E row \in conn.files :
                    row.id = f.file_id /\ row.path = f.file_path
              /\ ~ret.filters.include_test_data => f.is_test_data = 0

\* a read with the default filters over a store that holds test data next
\* to real matches
C17_Witness ==
    /\ ret.op = "get_findings"
    /\ ret.iterated
    /\ ~ret.raised
    /\ ret.filters = Filters(None, None, 0, FALSE)
    /\ ret.value # {}
    /\ \E m \in conn.matches : m.is_test_data = 1

----------------------------------------------------------------------------
(* has_sensitive_data.                                                     *)

\* at least one match of the list is not test data
SomeReal(ms) == {i \in 1..Len(ms) : ms[i].is_test_data = FALSE} # {}

\* the FileResult scan_file builds for a file whose text classify has
\* just been run on: the result of classify, or its failure
Scanned ==
    scan_file(DiscoveredFile(1, IF pc = "raised" THEN "detection_failed" ELSE "ok",
                             matches))

\* C18: has_sensitive_data of the ClassificationResult classify returns,
\* and of the FileResult scan_file builds from it, is true iff at least
\* one of its matches has is_test_data = false, the matches the filter
\* flagged included; with zero matches it is false and there is no label
\* recommendation.
C18_SensitiveIffSomeRealMatch ==
    /\ pc = "done" =>
          /\ result_has_sensitive_data(matches) <=> SomeReal(matches)
          /\ matches = <<>> =>
                /\ ~result_has_sensitive_data(matches)
                /\ label_recommendation = None
    /\ pc \in {"done", "raised"} =>
          /\ has_sensitive_data(Scanned) <=> SomeReal(Scanned.matches)
          /\ Scanned.matches = <<>> =>
                /\ ~has_sensitive_data(Scanned)
                /\ Scanned.label_recommendation = None

\* classify returned two matches and the filter flagged both
C18_Witness ==
    /\ pc = "done"
    /\ tpfp_classifier
    /\ Len(matches) = 2
    /\ ~SomeReal(matches)
    /\ Scanned.matches = matches

\* classify returned no match
C18_WitnessEmpty ==
    /\ pc = "done"
    /\ matches = <<>>
    /\ Scanned.error = None

----------------------------------------------------------------------------
(* The counters of a ScanResult and their copies in the scans table.       *)

\* the counters of ScanResult r are those of its file list
CountersFollowFiles(r) ==
    LET n == Len(r.files)
    IN  /\ total_files(r) = n
        /\ files_with_matches(r) =
               Cardinality({i \in 1..n : SomeReal(r.files[i].matches)})
        /\ files_errored(r) =
               Cardinality({i \in 1..n : r.files[i].error # None})
        /\ total_matches(r) =
               Cardinality({p \in UNION {{<<i, j>> : j \in 1..Len(r.files[i].matches)} :
                                             i \in 1..n} :
                              ~r.files[p[1]].matches[p[2]].is_test_data})

\* the counters in scans row s are those of the file and match rows of
\* its scan
RowFollowsData(s) ==
    LET fs == OfScan(conn.files, s.scan_id)
        ms == OfScan(conn.matches, s.scan_id)
    IN  /\ s.total_files = Cardinality(fs)
        /\ s.files_with_matches =
               Cardinality({f \in fs : \E m \in ms :
                               m.file_id = f.id /\ m.is_test_data = 0})
        /\ s.files_errored = Cardinality({f \in fs : f.error # None})
        /\ s.total_matches = Cardinality({m \in ms : m.is_test_data = 0})

\* the counters of the ScanResult are those of its file list, whatever was
\* added, completed or flagged
C19_CountersInMemory == CountersFollowFiles(scan_result)

\* C19: the ScanResult counters never drift from the file list, and no
\* stored copy of them disagrees with the data it was taken from: every
\* scans row the connection sees carries the counters of the rows stored
\* for its scan.
C19_CountersNeverDrift ==
    /\ CountersFollowFiles(scan_result)
    /\ \A s \in conn.scans : RowFollowsData(s)

----------------------------------------------------------------------------
(* completed_at of a ScanResult.                                           *)

\* C20: completed_at is set exactly once: it is absent until complete is
\* called, only complete sets it, and once it is set no later add_file or
\* complete changes it.
C20_CompletedAtSetOnce ==
    /\ [][scan_result.completed_at # NoTime =>
             scan_result'.completed_at = scan_result.completed_at]_vars
    /\ [][(scan_result.completed_at = NoTime
             /\ scan_result'.completed_at # NoTime) =>
                scan_op' \in {"scan", "complete"}]_vars

----------------------------------------------------------------------------
(* storage/audit.py: AuditLog.get_entries and AuditLog.get_stats over a    *)
(* log file that holds any lines.  A line is blank, text that is not JSON, *)
(* a JSON value that is not an object, or a JSON object; data is what      *)
(* json.loads returns for it.                                              *)

\* the members of AuditAction the store writes
AuditActions == {DB_CREATE, DB_OPEN, DB_CLOSE, SCAN_START, FINDING_STORE,
                 FINDING_READ, FINDING_DELETE}

\* the keys get_entries and get_stats subscript
RequiredKeys == {"timestamp", "action", "user", "details"}

\* get_entries: limit: int = 1000
DefaultLimit == 1000

\* AuditEntry.to_json: the line log writes for an entry at time t
to_json(t, action, user, scan_id, success) ==
    [kind |-> "object",
     data |-> [timestamp |-> t, action |-> action, user |-> user,
               details |-> "{}", record_count |-> 0, scan_id |-> scan_id,
               success |-> success, error |-> None]]

\* a JSON object that lacks one key
Lacking(line, key) ==
    [line EXCEPT !.data = [k \in (DOMAIN line.data) \ {key} |-> line.data[k]]]

\* a line of white space; a line that is not JSON; JSON that is no object
BlankLine == [kind |-> "blank", data |-> [raw |-> " "]]
TextLine == [kind |-> "text", data |-> [raw |-> "not json"]]
NumberLine == [kind |-> "number", data |-> [raw |-> "42"]]
ArrayLine == [kind |-> "array", data |-> [raw |-> "[1, 2]"]]

\* the lines the log writes
WrittenLines ==
    {to_json(t, a, u, sc, ok) :
        t \in 1..MaxClock, a \in {FINDING_STORE, FINDING_READ},
        u \in {"alice"}, sc \in {None, "s1"}, ok \in BOOLEAN}

\* the lines that are not entries of the log
MalformedLines ==
    {TextLine, NumberLine, ArrayLine}
        \cup {Lacking(to_json(1, FINDING_READ, "alice", "s1", TRUE), k) :
                k \in RequiredKeys}
        \cup {to_json(1, "bogus", "alice", "s1", TRUE)}

LogLines == WrittenLines \cup MalformedLines \cup {BlankLine}

\* the lines log wrote are in the order of their timestamps
InOrder(lines) ==
    \A i, j \in 1..Len(lines) :
        (i < j /\ lines[i] \in WrittenLines /\ lines[j] \in WrittenLines) =>
            lines[i].data.timestamp <= lines[j].data.timestamp

\* what reading a line raises at data[key]: TypeError when json.loads gave
\* a number or a list, KeyError when the object lacks the key
Subscript(line, key) ==
    IF line.kind # "object" THEN "TypeError"
    ELSE IF key \notin DOMAIN line.data THEN "KeyError"
    ELSE "ok"

\* datetime.fromisoformat raises ValueError for a text that is no time
IsoformatRaises(t) == t < 0

\* the first exception the body of the try block of get_entries raises for
\* a line, "ok" for none, "skip" when a filter drops the line
EntryOutcome(line, since, action, scan_id) ==
    IF line.kind = "text" THEN "JSONDecodeError"
    ELSE IF Subscript(line, "timestamp") # "ok" THEN Subscript(line, "timestamp")
    ELSE IF IsoformatRaises(line.data.timestamp) THEN "ValueError"
    ELSE IF since # NoTime /\ line.data.timestamp < since[1] THEN "skip"
    ELSE IF action # None /\ Subscript(line, "action") # "ok"
         THEN Subscript(line, "action")
    ELSE IF action # None /\ line.data.action # action THEN "skip"
    ELSE IF scan_id # None /\ line.data.scan_id # scan_id THEN "skip"
    ELSE IF Subscript(line, "action") # "ok" THEN Subscript(line, "action")
    ELSE IF line.data.action \notin AuditActions THEN "ValueError"
    ELSE IF Subscript(line, "user") # "ok" THEN Subscript(line, "user")
    ELSE IF Subscript(line, "details") # "ok" THEN Subscript(line, "details")
    ELSE "ok"

\* the AuditEntry get_entries builds from a line
EntryOf(line) ==
    [timestamp |-> line.data.timestamp, action |-> line.data.action,
     user |-> line.data.user, scan_id |-> line.data.scan_id,
     success |-> line.data.success]

\* a get_entries that catches every exception
get_entries_caught_All == {"JSONDecodeError", "KeyError", "ValueError", "TypeError"}

\* get_entries: except (json.JSONDecodeError, KeyError, ValueError)
get_entries_caught == {"JSONDecodeError", "KeyError", "ValueError"}

\* get_entries, the loop over the lines from index i on
RECURSIVE EntriesLoop(_, _, _, _, _, _, _)
EntriesLoop(lines, i, entries, since, action, scan_id, limit) ==
    IF i > Len(lines) THEN [raised |-> FALSE, value |-> entries]
    ELSE IF lines[i].kind = "blank"
         THEN EntriesLoop(lines, i + 1, entries, since, action, scan_id, limit)
    ELSE LET outcome == EntryOutcome(lines[i], since, action, scan_id)
         IN  IF outcome = "ok"
             THEN LET longer == Append(entries, EntryOf(lines[i]))
                  IN  IF Len(longer) >= limit
                      THEN [raised |-> FALSE, value |-> longer]
                      ELSE EntriesLoop(lines, i + 1, longer, since, action,
                                       scan_id, limit)
             ELSE IF outcome \in get_entries_caught \cup {"skip"}
             THEN EntriesLoop(lines, i + 1, entries, since, action, scan_id, limit)
             ELSE [raised |-> TRUE, value |-> <<>>]

\* AuditLog.get_entries(since, action, scan_id, limit)
get_entries(lines, since, action, scan_id, limit) ==
    EntriesLoop(lines, 1, <<>>, since, action, scan_id, limit)

\* by_action[action] = by_action.get(action, 0) + 1
Counted(counts, k) ==
    [x \in (DOMAIN counts) \cup {k} |->
        IF x \in DOMAIN counts THEN counts[x] + (IF x = k THEN 1 ELSE 0) ELSE 1]

NoCounts == [k \in {} |-> 0]

NoStats ==
    [total_entries |-> 0, by_action |-> NoCounts, by_user |-> NoCounts, errors |-> 0,
     first_entry |-> NoTime, last_entry |-> NoTime]

\* one line of get_stats: the statements of the try block in order, each
\* keeping what the ones before it did; the exception it ends with, if any
StatsLine(stats, line) ==
    IF line.kind = "text" THEN [stats |-> stats, outcome |-> "JSONDecodeError"]
    ELSE LET s1 == [stats EXCEPT !.total_entries = @ + 1]
         IN  IF Subscript(line, "action") # "ok"
             THEN [stats |-> s1, outcome |-> Subscript(line, "action")]
             ELSE LET s2 == [s1 EXCEPT !.by_action = Counted(@, line.data.action)]
                  IN  IF Subscript(line, "user") # "ok"
                      THEN [stats |-> s2, outcome |-> "KeyError"]
                      ELSE LET s3 == [s2 EXCEPT !.by_user = Counted(@, line.data.user)]
                               failed == IF "success" \in DOMAIN line.data
                                         THEN ~line.data.success ELSE FALSE
                               s4 == [s3 EXCEPT !.errors = @ + (IF failed THEN 1 ELSE 0)]
                           IN  IF Subscript(line, "timestamp") # "ok"
                               THEN [stats |-> s4, outcome |-> "KeyError"]
                               ELSE [stats |->
                                        [s4 EXCEPT
                                           !.first_entry =
                                               IF @ = NoTime
                                               THEN Time(line.data.timestamp) ELSE @,
                                           !.last_entry = Time(line.data.timestamp)],
                                     outcome |-> "ok"]

\* get_stats: except (json.JSONDecodeError, KeyError)
get_stats_caught == {"JSONDecodeError", "KeyError"}

\* get_stats, the loop over the lines from index i on
RECURSIVE StatsLoop(_, _, _)
StatsLoop(lines, i, stats) ==
    IF i > Len(lines) THEN [raised |-> FALSE, value |-> stats]
    ELSE IF lines[i].kind = "blank" THEN StatsLoop(lines, i + 1, stats)
    ELSE LET step == StatsLine(stats, lines[i])
         IN  IF step.outcome \in get_stats_caught \cup {"ok"}
             THEN StatsLoop(lines, i + 1, step.stats)
             ELSE [raised |-> TRUE, value |-> NoStats]

\* AuditLog.get_stats()
audit_get_stats(lines) == StatsLoop(lines, 1, NoStats)

\* audit.log(action, scan_id=..., success=...): one more line in the file
LogAppend ==
    /\ log_ret.op = "idle"
    /\ Len(log_file) < MaxLines
    /\ \E line \in WrittenLines :
         /\ InOrder(Append(log_file, line))
         /\ log_file' = Append(log_file, line)
    /\ log_ret' = [op |-> "log"]
    /\ UNCHANGED <<pipeVars, cryptoVars, storeVars, scanVars, keyVars, callVars, connVars>>

\* audit.get_entries(since, action, scan_id, limit)
GetEntries ==
    /\ log_ret.op = "idle"
    /\ \E since \in {NoTime, Time(MaxClock)}, action \in {None, FINDING_READ},
          scan_id \in {None, "s1"}, limit \in {1, DefaultLimit} :
         LET r == get_entries(log_file, since, action, scan_id, limit)
         IN  log_ret' = [op |-> "get_entries", raised |-> r.raised,
                         value |-> r.value, since |-> since, action |-> action,
                         scan_id |-> scan_id, limit |-> limit]
    /\ UNCHANGED <<log_file, pipeVars, cryptoVars, storeVars, scanVars, keyVars, callVars, connVars>>

\* audit.get_stats()
GetStats ==
    /\ log_ret.op = "idle"
    /\ LET r == audit_get_stats(log_file)
       IN  log_ret' = [op |-> "get_stats", raised |-> r.raised, value |-> r.value]
    /\ UNCHANGED <<log_file, pipeVars, cryptoVars, storeVars, scanVars, keyVars, callVars, connVars>>

LogReturn ==
    /\ log_ret.op # "idle"
    /\ log_ret' = [op |-> "idle"]
    /\ UNCHANGED <<log_file, pipeVars, cryptoVars, storeVars, scanVars, keyVars, callVars, connVars>>

\* a log file with any lines in it
InitLog ==
    /\ log_file \in {ls \in SeqsUpTo(LogLines, MaxLines - 1) : InOrder(ls)}
    /\ log_ret = [op |-> "idle"]
    /\ PipelineIdle
    /\ CryptoIdle
    /\ StoreIdle
    /\ ScanIdle
    /\ KeyIdle
    /\ ConnIdle
    /\ CallIdle

NextLog == LogAppend \/ GetEntries \/ GetStats \/ LogReturn

SpecLog == InitLog /\ [][NextLog]_vars

\* a line that is an entry of the log
WellFormed(line) ==
    /\ line.kind = "object"
    /\ RequiredKeys \subseteq DOMAIN line.data
    /\ line.data.action \in AuditActions

\* the entries of the file that pass the filters of the read in log_ret
Passing ==
    SelectSeq(log_file,
              LAMBDA line :
                  /\ WellFormed(line)
                  /\ log_ret.since # NoTime => line.data.timestamp >= log_ret.since[1]
                  /\ log_ret.action # None => line.data.action = log_ret.action
                  /\ log_ret.scan_id # None => line.data.scan_id = log_ret.scan_id)

\* the entries of the file
Entries == SelectSeq(log_file, WellFormed)

\* the entries of the file with v under key
Having(key, v) == {i \in 1..Len(Entries) : Entries[i].data[key] = v}

\* C21: get_entries and get_stats return normally whatever lines the log
\* holds, and what they return is what they would return for the file
\* without its malformed lines: the entries that pass the filters, up to
\* the limit, and the counts of the entries.
C21_ReadsSkipMalformedLines ==
    /\ log_ret.op = "get_entries" =>
          /\ ~log_ret.raised
          /\ Len(log_ret.value) =
                 (IF Len(Passing) < log_ret.limit THEN Len(Passing) ELSE log_ret.limit)
          /\ \A i \in 1..Len(log_ret.value) : log_ret.value[i] = EntryOf(Passing[i])
    /\ log_ret.op = "get_stats" =>
          /\ ~log_ret.raised
          /\ log_ret.value.total_entries = Len(Entries)
          /\ \A a \in DOMAIN log_ret.value.by_action :
                log_ret.value.by_action[a] = Cardinality(Having("action", a))
          /\ \A u \in DOMAIN log_ret.value.by_user :
                log_ret.value.by_user[u] = Cardinality(Having("user", u))
          /\ log_ret.value.errors = Cardinality(Having("success", FALSE))

\* get_entries returns normally with the entries, whatever lines the log
\* holds other than JSON values that are not objects
C21_EntriesSkipWhatTheyCatch ==
    (/\ log_ret.op = "get_entries"
     /\ \A i \in 1..Len(log_file) : log_file[i].kind \in {"blank", "text", "object"}) =>
        /\ ~log_ret.raised
        /\ Len(log_ret.value) =
               (IF Len(Passing) < log_ret.limit THEN Len(Passing) ELSE log_ret.limit)
        /\ \A i \in 1..Len(log_ret.value) : log_ret.value[i] = EntryOf(Passing[i])

----------------------------------------------------------------------------
(* scanner/results.py: ScanResult.to_dict, applied to a ScanResult of one  *)
(* file with one match of any value.                                       *)

\* "*", "A" and "B"
MaskChar == 42
ValueChars == {MaskChar, 65, 66}
Values == SeqsUpTo(ValueChars, MaxValueLen)
Contexts == {<<>>, <<65>>, <<66, 65>>}

\* a to_dict that writes the value itself
match_dict_Raw(m) ==
    [entity_type |-> m.entity_type, value |-> m.value,
     confidence |-> m.confidence,
     confidence_level |-> confidence_level(m.confidence),
     detector |-> m.detector, is_test_data |-> m.is_test_data]

\* to_dict, the dict of one match; model_version is left out
match_dict(m) ==
    [entity_type |-> m.entity_type, value |-> redacted_value(m.value),
     confidence |-> m.confidence,
     confidence_level |-> confidence_level(m.confidence),
     detector |-> m.detector, is_test_data |-> m.is_test_data]

\* to_dict, the dict of one file; size_bytes and modified are left out
file_to_dict(f) ==
    [path |-> f.path, has_sensitive_data |-> has_sensitive_data(f),
     label_recommendation |-> f.label_recommendation, error |-> f.error,
     matches |-> [j \in 1..Len(f.matches) |-> match_dict(f.matches[j])]]

\* ScanResult.to_dict; scan_id, started_at and the source are left out
to_dict(r) ==
    [completed_at |-> r.completed_at,
     summary |-> [total_files |-> total_files(r),
                  files_with_matches |-> files_with_matches(r),
                  files_errored |-> files_errored(r),
                  total_matches |-> total_matches(r)],
     files |-> [i \in 1..Len(r.files) |-> file_to_dict(r.files[i])]]

\* a ScanResult of one file with one match of value v and context ctx
Scanned1(v, ctx) ==
    [files |-> <<FileResult("a.txt", <<FoundMatch(SSN, v, ctx, 75, FALSE)>>, None)>>,
     completed_at |-> Time(0)]

ToDict ==
    /\ called = "idle"
    /\ returned' = to_dict(arg)
    /\ called' = "to_dict"
    /\ UNCHANGED <<arg, pipeVars, cryptoVars, storeVars, scanVars, keyVars, logVars, connVars>>

InitToDict ==
    /\ called = "idle"
    /\ arg \in {Scanned1(v, ctx) : v \in Values, ctx \in Contexts}
    /\ returned = <<>>
    /\ PipelineIdle
    /\ CryptoIdle
    /\ StoreIdle
    /\ ScanIdle
    /\ KeyIdle
    /\ ConnIdle
    /\ LogIdle

NextToDict == ToDict

SpecToDict == InitToDict /\ [][NextToDict]_vars

\* the values redacted_value cannot tell from v: those of its length with
\* its first two and last two characters when it is longer than four
Alike(v) ==
    {w \in Values :
        /\ Len(w) = Len(v)
        /\ Len(v) > 4 =>
              \A i \in {1, 2, Len(v) - 1, Len(v)} : w[i] = v[i]}

\* C22: redacted_value has the length of the value, is all mask
\* characters for a value of at most four characters and otherwise shows
\* the first two and last two characters and masks every other position;
\* the value of every match in to_dict is this form, and to_dict is the
\* same for any other value with these characters and any other context,
\* so neither the value nor the context is in it.
C22_ToDictShowsOnlyTheRedactedValue ==
    called = "to_dict" =>
        LET m == arg.files[1].matches[1]
            v == m.value
            shown == returned.files[1].matches[1].value
        IN  /\ shown = redacted_value(v)
            /\ Len(shown) = Len(v)
            /\ Len(v) <= 4 => \A i \in 1..Len(v) : shown[i] = MaskChar
            /\ Len(v) > 4 =>
                  \A i \in 1..Len(v) :
                      IF i \in {1, 2, Len(v) - 1, Len(v)}
                      THEN shown[i] = v[i] ELSE shown[i] = MaskChar
            /\ DOMAIN returned.files[1].matches[1] =
                  {"entity_type", "value", "confidence", "confidence_level",
                   "detector", "is_test_data"}
            /\ \A w \in Alike(v), ctx \in Contexts :
                  to_dict(Scanned1(w, ctx)) = returned

\* a value of six characters, none of them the mask character, with a
\* context, was serialized
C22_Witness ==
    /\ called = "to_dict"
    /\ arg.files[1].matches[1].value = <<65, 66, 65, 66, 66, 65>>
    /\ arg.files[1].matches[1].context # <<>>
    /\ returned.files[1].matches[1].value = <<65, 66, MaskChar, MaskChar, 66, 65>>

----------------------------------------------------------------------------
(* classifier/detectors/regex.py: the validators, applied on their own.    *)
(* A string is a sequence of code points; 48..57 are "0".."9", 45 is "-"   *)
(* and 32 a space.                                                         *)

IsDigit(c) == c \in 48..57

\* [int(d) for d in re.sub(r"[^\d]", "", value)]
DigitsOf(value) ==
    LET kept == SelectSeq(value, IsDigit)
    IN  [i \in 1..Len(kept) |-> kept[i] - 48]

\* the string of a list of digits
Str(ds) == [i \in 1..Len(ds) |-> ds[i] + 48]

\* luhn_check: len(digits) < 13 or len(digits) > 19
MinCardDigits == 13
MaxCardDigits == 19

\* digits[-k::-2]: every second digit from the k-th from the right
FromRight(ds, k) ==
    [i \in 1..((Len(ds) - k + 2) \div 2) |-> ds[Len(ds) - k + 1 - 2 * (i - 1)]]

\* sum(divmod(d * 2, 10))
DoubledSum(dd) == ((dd * 2) \div 10) + ((dd * 2) % 10)

\* a luhn_check that doubles the digits at the odd places from the right
luhn_check_OddDoubled(value) ==
    LET digits == DigitsOf(value)
        odd_digits == FromRight(digits, 1)
        even_digits == FromRight(digits, 2)
        checksum == Sum(even_digits)
                      + Sum([i \in 1..Len(odd_digits) |-> DoubledSum(odd_digits[i])])
    IN  IF Len(digits) < MinCardDigits \/ Len(digits) > MaxCardDigits THEN FALSE
        ELSE checksum % 10 = 0

\* luhn_check
luhn_check(value) ==
    LET digits == DigitsOf(value)
        odd_digits == FromRight(digits, 1)
        even_digits == FromRight(digits, 2)
        checksum == Sum(odd_digits)
                      + Sum([i \in 1..Len(even_digits) |-> DoubledSum(even_digits[i])])
    IN  IF Len(digits) < MinCardDigits \/ Len(digits) > MaxCardDigits THEN FALSE
        ELSE checksum % 10 = 0

\* 4111111111111111, 5500000000000004 and 378282246310005
Card_visa == Str(<<4>> \o [i \in 1..15 |-> 1])
Card_mc == Str(<<5, 5>> \o [i \in 1..13 |-> 0] \o <<4>>)
Card_amex == Str(<<3, 7, 8, 2, 8, 2, 2, 4, 6, 3, 1, 0, 0, 0, 5>>)
Cards == {Card_visa, Card_mc, Card_amex}

\* a number with one digit altered
Altered(card) ==
    {[card EXCEPT ![i] = c] : i \in 1..Len(card), c \in (48..57)} \ {card}

\* a number with a separator after every fourth digit
Grouped(card, sep) ==
    Flatten([i \in 1..Len(card) |->
                IF i % 4 = 0 /\ i < Len(card) THEN <<card[i], sep>> ELSE <<card[i]>>])

\* a number cut to n digits, and one with the digits ds after it
CutTo(card, n) == SubSeq(card, 1, n)
Longer(card, ds) == card \o Str(ds)

\* the strings handed to luhn_check: the three numbers, each with one digit
\* altered, with separators, and with fewer or more digits, down to 12 and
\* up to 20
CardInputs ==
    Cards
        \cup UNION {Altered(card) : card \in Cards}
        \cup {Grouped(card, sep) : card \in Cards, sep \in {32, 45}}
        \cup {CutTo(card, n) : card \in Cards, n \in (MinCardDigits - 1)..15}
        \cup {Longer(card, ds) : card \in Cards,
                                 ds \in UNION {[1..n -> {0, 1}] : n \in 1..(MaxCardDigits + 1 - 15)}}

LuhnCheck ==
    /\ called = "idle"
    /\ returned' = luhn_check(arg)
    /\ called' = "luhn_check"
    /\ UNCHANGED <<arg, pipeVars, cryptoVars, storeVars, scanVars, keyVars, logVars, connVars>>

InitLuhn ==
    /\ called = "idle"
    /\ arg \in CardInputs
    /\ returned = <<>>
    /\ PipelineIdle
    /\ CryptoIdle
    /\ StoreIdle
    /\ ScanIdle
    /\ KeyIdle
    /\ ConnIdle
    /\ LogIdle

NextLuhn == LuhnCheck

SpecLuhn == InitLuhn /\ [][NextLuhn]_vars

\* the k-th digit of ds from the right, doubled and reduced to its digit sum
\* when k is even
LuhnTerm(ds, k) ==
    LET dd == ds[Len(ds) - k + 1]
    IN  IF k % 2 = 1 THEN dd
        ELSE IF 2 * dd > 9 THEN 2 * dd - 9 ELSE 2 * dd

\* C23: luhn_check is false for fewer than 13 or more than 19 digits and
\* otherwise true iff the sum of the digits, every second one from the
\* right doubled and reduced to its digit sum, is 0 mod 10, non-digits
\* ignored; it accepts 4111111111111111, 5500000000000004 and
\* 378282246310005 and rejects each of them with one digit altered.
C23_LuhnRule ==
    called = "luhn_check" =>
        LET ds == DigitsOf(arg)
            n == Len(ds)
        IN  /\ returned <=>
                  /\ n >= 13
                  /\ n <= 19
                  /\ Sum([k \in 1..n |-> LuhnTerm(ds, k)]) % 10 = 0
            /\ arg \in Cards => returned
            /\ (\E card \in Cards : arg \in Altered(card)) => ~returned

\* a number of 16 digits with separators was accepted
C23_Witness ==
    /\ called = "luhn_check"
    /\ arg = Grouped(Card_visa, 45)
    /\ returned = TRUE

\* a number with one digit altered was rejected
C23_WitnessAltered ==
    /\ called = "luhn_check"
    /\ arg \in Altered(Card_amex)
    /\ returned = FALSE

----------------------------------------------------------------------------
(* validate_ssn, and RegexDetector.detect with SSN_PATTERN on a text that  *)
(* is one candidate.                                                       *)

\* int(digits[a:b])
IntOf(ds) == IF ds = <<>> THEN 0 ELSE Sum([i \in 1..Len(ds) |-> ds[i] * 10^(Len(ds) - i)])

\* validate_ssn: len(digits) != 9
SsnDigits == 9

\* a validate_ssn that lets area 900 pass
validate_ssn_Above900(value) ==
    LET digits == DigitsOf(value)
        area == IntOf(SubSeq(digits, 1, 3))
        group == IntOf(SubSeq(digits, 4, 5))
        serial == IntOf(SubSeq(digits, 6, Len(digits)))
    IN  IF Len(digits) # SsnDigits THEN FALSE
        ELSE IF area = 0 \/ area = 666 \/ area > 900 THEN FALSE
        ELSE IF group = 0 THEN FALSE
        ELSE IF serial = 0 THEN FALSE
        ELSE TRUE

\* validate_ssn
validate_ssn(value) ==
    LET digits == DigitsOf(value)
        area == IntOf(SubSeq(digits, 1, 3))
        group == IntOf(SubSeq(digits, 4, 5))
        serial == IntOf(SubSeq(digits, 6, Len(digits)))
    IN  IF Len(digits) # SsnDigits THEN FALSE
        ELSE IF area = 0 \/ area = 666 \/ area >= 900 THEN FALSE
        ELSE IF group = 0 THEN FALSE
        ELSE IF serial = 0 THEN FALSE
        ELSE TRUE

\* [-\s]?: nothing, "-" or a space
Separators == {<<>>, <<45>>, <<32>>}

AllDigits(s) == \A i \in 1..Len(s) : IsDigit(s[i])

\* SSN_PATTERN.regex matches the whole of value: three digits that are not
\* 000, 666 or 9xx, an optional separator, two digits that are not 00, an
\* optional separator, four digits that are not 0000
SsnRegex(value) ==
    \E s1 \in Separators, s2 \in Separators :
        /\ Len(value) = 9 + Len(s1) + Len(s2)
        /\ LET a == SubSeq(value, 1, 3)
               g == SubSeq(value, 4 + Len(s1), 5 + Len(s1))
               s == SubSeq(value, 6 + Len(s1) + Len(s2), Len(value))
           IN  /\ value = a \o s1 \o g \o s2 \o s
               /\ AllDigits(a) /\ AllDigits(g) /\ AllDigits(s)
               /\ a # <<48, 48, 48>>
               /\ a # <<54, 54, 54>>
               /\ a[1] # 57
               /\ g # <<48, 48>>
               /\ s # <<48, 48, 48, 48>>

\* re.sub(r"[-.\s()]", "", value.lower())
Normalized(value) == SelectSeq(value, LAMBDA c : c \notin {45, 46, 32, 40, 41})

\* "123-45-6789" and "987-65-4321" of SSN_PATTERN.test_patterns
SsnTestPatterns ==
    {<<49, 50, 51, 45, 52, 53, 45, 54, 55, 56, 57>>,
     <<57, 56, 55, 45, 54, 53, 45, 52, 51, 50, 49>>}

\* RegexDetector._is_test_data
_is_test_data(value, test_patterns) ==
    \E test \in test_patterns : Normalized(value) = Normalized(test)

\* the hits of SSN_PATTERN.regex.finditer in a text that is one candidate
SsnHits(text) == IF SsnRegex(text) THEN <<text>> ELSE <<>>

\* RegexDetector.detect for SSN_PATTERN: a Match per hit the validator
\* passes
detect_ssn(text) ==
    LET valid == SelectSeq(SsnHits(text), validate_ssn)
    IN  [i \in 1..Len(valid) |->
            FoundMatch(SSN, valid[i], text, confidence_base(SSN),
                       _is_test_data(valid[i], SsnTestPatterns))]

\* the strings handed to validate_ssn and to detect: the segments at and
\* around their limits with every separator, the test numbers, and the
\* wrong lengths "12-34-5678" and "1234-56-7890"
SsnAreas == {<<0, 0, 0>>, <<0, 0, 1>>, <<0, 7, 8>>, <<6, 6, 5>>, <<6, 6, 6>>,
             <<6, 6, 7>>, <<8, 9, 9>>, <<9, 0, 0>>, <<9, 9, 9>>}
SsnGroups == {<<0, 0>>, <<0, 5>>, <<9, 9>>}
SsnSerials == {<<0, 0, 0, 0>>, <<1, 1, 2, 0>>, <<9, 9, 9, 9>>}

SsnInputs ==
    {Str(a) \o s1 \o Str(g) \o s2 \o Str(s) :
        a \in SsnAreas, s1 \in Separators, g \in SsnGroups, s2 \in Separators,
        s \in SsnSerials}
      \cup SsnTestPatterns
      \cup {Str(<<1, 2>>) \o <<45>> \o Str(<<3, 4>>) \o <<45>> \o Str(<<5, 6, 7, 8>>),
            Str(<<1, 2, 3, 4>>) \o <<45>> \o Str(<<5, 6>>) \o <<45>> \o Str(<<7, 8, 9, 0>>),
            Str(<<0, 7, 8>>) \o <<97>> \o Str(<<0, 5, 1, 1, 2, 0>>)}

ValidateSsn ==
    /\ called = "idle"
    /\ returned' = validate_ssn(arg)
    /\ called' = "validate_ssn"
    /\ UNCHANGED <<arg, pipeVars, cryptoVars, storeVars, scanVars, keyVars, logVars, connVars>>

DetectSsn ==
    /\ called = "idle"
    /\ returned' = detect_ssn(arg)
    /\ called' = "detect"
    /\ UNCHANGED <<arg, pipeVars, cryptoVars, storeVars, scanVars, keyVars, logVars, connVars>>

InitSsn ==
    /\ called = "idle"
    /\ arg \in SsnInputs
    /\ returned = <<>>
    /\ PipelineIdle
    /\ CryptoIdle
    /\ StoreIdle
    /\ ScanIdle
    /\ KeyIdle
    /\ ConnIdle
    /\ LogIdle

NextSsn == ValidateSsn \/ DetectSsn

SpecSsn == InitSsn /\ [][NextSsn]_vars

\* value has nine digits, an area that is not 000, not 666 and below 900,
\* a group that is not 00 and a serial that is not 0000
WellFormedSsn(value) ==
    LET ds == DigitsOf(value)
    IN  /\ Len(ds) = 9
        /\ LET area == 100 * ds[1] + 10 * ds[2] + ds[3]
               group == 10 * ds[4] + ds[5]
               serial == 1000 * ds[6] + 100 * ds[7] + 10 * ds[8] + ds[9]
           IN  /\ area \notin {0, 666}
               /\ area < 900
               /\ group # 0
               /\ serial # 0

\* C24: validate_ssn accepts a value iff it has exactly nine digits,
\* separators ignored, with an area that is not 000, not 666 and below 900,
\* a group that is not 00 and a serial that is not 0000; the pattern
\* detector emits no identity-number match that fails this.
C24_SsnValidator ==
    /\ called = "validate_ssn" => (returned <=> WellFormedSsn(arg))
    /\ called = "detect" =>
          \A i \in 1..Len(returned) :
              returned[i].entity_type = SSN => WellFormedSsn(returned[i].value)

\* validate_ssn accepted "078 05-1120"
C24_Witness ==
    /\ called = "validate_ssn"
    /\ arg = Str(<<0, 7, 8>>) \o <<32>> \o Str(<<0, 5>>) \o <<45>> \o Str(<<1, 1, 2, 0>>)
    /\ returned = TRUE

\* detect emitted a match for an identity number
C24_WitnessDetect ==
    /\ called = "detect"
    /\ Len(returned) = 1
    /\ returned[1].entity_type = SSN

\* validate_ssn rejected area 899's neighbour 900
C24_WitnessRejected ==
    /\ called = "validate_ssn"
    /\ DigitsOf(arg) = <<9, 0, 0, 0, 5, 1, 1, 2, 0>>
    /\ returned = FALSE

----------------------------------------------------------------------------
(* The audit entry of get_findings.                                        *)

\* C25: once the caller of get_findings has finished with the iterator,
\* having exhausted it, abandoned it after some findings or had it aborted
\* by a decryption error, the log holds exactly one more entry,
\* FINDING_READ, whose record_count is the number of findings delivered.
C25_EveryDeliveryAudited ==
    [][Calls({"get_findings"}) =>
           /\ OneEntryAppended
           /\ audit'[Len(audit')] =
                  AuditEntry(FINDING_READ, Cardinality(ret'.value), ret'.scan_id)]_vars

\* get_findings, run to its end, appends exactly one FINDING_READ entry
\* with the number of findings delivered
C25_ExhaustedIsAudited ==
    [][(Calls({"get_findings"}) /\ ret'.iterated /\ ~ret'.raised) =>
           /\ OneEntryAppended
           /\ audit'[Len(audit')] =
                  AuditEntry(FINDING_READ, Cardinality(ret'.value), ret'.scan_id)]_vars

\* findings were delivered and the log has no entry for them
C25_Unaudited ==
    /\ ret.op = "get_findings"
    /\ ret.value # {}
    /\ \A i \in 1..Len(audit) : audit[i].action # FINDING_READ

----------------------------------------------------------------------------
(* Two FindingsDatabase objects on one database file, each with its own    *)
(* sqlite3 connection, running store_scan, delete_scan and purge_all one   *)
(* statement at a time.  sqlite3 opens a transaction before the first      *)
(* INSERT or DELETE of a call and SQLite gives the write lock to one       *)
(* connection at a time: a write by another connection raises "database is *)
(* locked".  A connection reads the committed tables and its own open      *)
(* transaction.  disk is the file, audit the log next to it.               *)

Conns == {1, 2}

\* what connection c reads
View(c) == IF holder = c THEN conns[c] ELSE disk

\* the statements of delete_scan and purge_all: the SELECT COUNT(*), the
\* three DELETEs, the commit, the audit entry
DeleteStatements ==
    <<[kind |-> "count", f |-> 0, m |-> 0], [kind |-> "delete", f |-> 0, m |-> 0],
      [kind |-> "commit", f |-> 0, m |-> 0], [kind |-> "audit", f |-> 0, m |-> 0]>>

NotRunning == [op |-> "idle"]

\* the calls a connection makes: store_scan of a scan, with the statement
\* that raises for a reason outside the program (0 for none, 2 for the
\* first after the INSERT INTO scans); delete_scan; purge_all
WriteCalls ==
    {[op |-> "store_scan", scan |-> scan, stmts |-> Statements(scan), i |-> 1,
      fail_at |-> fail_at, file_id |-> 0, match_count |-> 0] :
        scan \in ScanResults, fail_at \in {0, 2}}
      \cup {[op |-> "delete_scan", scan |-> [scan_id |-> id, files |-> <<>>],
             stmts |-> DeleteStatements, i |-> 1, fail_at |-> 0, file_id |-> 0,
             match_count |-> 0] : id \in ScanIds}
      \cup {[op |-> "purge_all", scan |-> [scan_id |-> None, files |-> <<>>],
             stmts |-> DeleteStatements, i |-> 1, fail_at |-> 0, file_id |-> 0,
             match_count |-> 0]}

\* a connection calls store_scan, delete_scan or purge_all (as long as the
\* log has room for the entries of the calls that run)
Call(c) ==
    /\ running[c].op = "idle"
    /\ Len(audit) + Cardinality({d \in Conns : running[d].op # "idle"}) < MaxLog
    /\ \E call \in WriteCalls : running' = [running EXCEPT ![c] = call]
    /\ UNCHANGED <<conns, holder, pipeVars, cryptoVars, storeVars, scanVars, keyVars, logVars, callVars>>

\* the call of connection c goes on to its next statement, or returns
\* after its last
Advanced(c, call) ==
    IF call.i = Len(call.stmts) THEN [running EXCEPT ![c] = NotRunning]
    ELSE [running EXCEPT ![c] = [call EXCEPT !.i = @ + 1]]

\* the exception of a statement ends the call of connection c
Raised(c) == [running EXCEPT ![c] = NotRunning]

\* the rows a DELETE of the call removes
Deleted(t, call) ==
    IF call.op = "purge_all" THEN WithoutRows(t) ELSE WithoutScan(t, call.scan.scan_id)

\* an INSERT or DELETE of connection c: it raises when another connection
\* holds the write lock; the INSERT INTO scans raises for a scan_id that is
\* in the table, with the transaction open; otherwise it runs in the
\* transaction of c
Write(c) ==
    LET call == running[c]
        stmt == call.stmts[call.i]
        st == Statement([conn |-> View(c), disk |-> disk, audit |-> audit,
                         file_id |-> call.file_id, match_count |-> call.match_count],
                        call.scan, stmt, encryptor_key)
    IN  /\ call.op # "idle"
        /\ call.i # call.fail_at
        /\ stmt.kind \in {"scan", "file", "match", "delete"}
        /\ IF holder \notin {0, c}
           THEN /\ running' = Raised(c)
                /\ UNCHANGED <<conns, holder>>
           ELSE /\ holder' = c
                /\ IF stmt.kind = "delete"
                   THEN /\ conns' = [conns EXCEPT ![c] = Deleted(View(c), call)]
                        /\ running' = Advanced(c, call)
                   ELSE IF /\ stmt.kind = "scan"
                           /\ \E r \in View(c).scans : r.scan_id = call.scan.scan_id
                   THEN /\ conns' = [conns EXCEPT ![c] = View(c)]
                        /\ running' = Raised(c)
                   ELSE /\ conns' = [conns EXCEPT ![c] = st.conn]
                        /\ running' =
                              Advanced(c, [call EXCEPT !.file_id = st.file_id,
                                                       !.match_count = st.match_count])
        /\ UNCHANGED <<pipeVars, cryptoVars, storeVars, scanVars, keyVars, logVars, callVars>>

\* a statement of store_scan raises for a reason outside the program
Fail(c) ==
    /\ running[c].op # "idle"
    /\ running[c].i = running[c].fail_at
    /\ running' = Raised(c)
    /\ UNCHANGED <<conns, holder, pipeVars, cryptoVars, storeVars, scanVars, keyVars, logVars, callVars>>

\* SELECT COUNT(*) FROM matches [WHERE scan_id = ?]
Count(c) ==
    LET call == running[c]
    IN  /\ call.op # "idle"
        /\ call.stmts[call.i].kind = "count"
        /\ running' =
              Advanced(c, [call EXCEPT !.match_count =
                  Cardinality(View(c).matches \ Deleted(View(c), call).matches)])
        /\ UNCHANGED <<conns, holder, pipeVars, cryptoVars, storeVars, scanVars, keyVars, logVars, callVars>>

\* self.conn.commit(): the open transaction of c, whatever calls wrote it,
\* goes to the file and the lock is free
Commit(c) ==
    LET call == running[c]
    IN  /\ call.op # "idle"
        /\ call.i # call.fail_at
        /\ call.stmts[call.i].kind = "commit"
        /\ disk' = View(c)
        /\ holder' = IF holder = c THEN 0 ELSE holder
        /\ running' = Advanced(c, call)
        /\ UNCHANGED <<conns, is_open, conn, audit, encryptor_key, ret, pipeVars, cryptoVars, scanVars, keyVars, logVars, callVars>>

\* self.audit.log(FINDING_STORE or FINDING_DELETE, record_count=...)
Audit(c) ==
    LET call == running[c]
    IN  /\ call.op # "idle"
        /\ call.i # call.fail_at
        /\ call.stmts[call.i].kind = "audit"
        /\ audit' = log(audit,
                        AuditEntry(IF call.op = "store_scan" THEN FINDING_STORE
                                   ELSE FINDING_DELETE,
                                   call.match_count, call.scan.scan_id))
        /\ running' = Advanced(c, call)
        /\ UNCHANGED <<conns, holder, is_open, conn, disk, encryptor_key, ret, pipeVars, cryptoVars, scanVars, keyVars, logVars, callVars>>

\* FindingsDatabase(path) twice: the first creates the file, the second
\* opens it
InitConns ==
    /\ conns = [c \in Conns |-> EmptyTables]
    /\ holder = 0
    /\ running = [c \in Conns |-> NotRunning]
    /\ is_open = TRUE
    /\ conn = EmptyTables
    /\ disk = EmptyTables
    /\ audit = <<AuditEntry(DB_CREATE, 0, None), AuditEntry(DB_OPEN, 0, None)>>
    /\ encryptor_key = 1
    /\ ret = [op |-> "idle"]
    /\ PipelineIdle
    /\ CryptoIdle
    /\ ScanIdle
    /\ KeyIdle
    /\ LogIdle
    /\ CallIdle

NextConns ==
    \E c \in Conns : Call(c) \/ Write(c) \/ Fail(c) \/ Count(c) \/ Commit(c) \/ Audit(c)

SpecConns == InitConns /\ [][NextConns]_vars

\* the tables after the call has run alone, from its first statement to
\* its commit, on the committed tables t
RunAlone(t, call) ==
    IF call.op = "store_scan"
    THEN Run([conn |-> t, disk |-> t, audit |-> <<>>, file_id |-> 0, match_count |-> 0],
             call.scan, call.stmts, 1, Len(call.stmts) - 2, encryptor_key).conn
    ELSE Deleted(t, call)

\* the tables of the call's transaction when it has run alone on t up to
\* the statement it is at
RunUpTo(t, call) ==
    IF call.op = "store_scan"
    THEN Run([conn |-> t, disk |-> t, audit |-> <<>>, file_id |-> 0, match_count |-> 0],
             call.scan, call.stmts, 1, call.i - 1, encryptor_key).conn
    ELSE Deleted(t, call)

\* connection c commits in this step
Commits(c) ==
    /\ running[c].op # "idle"
    /\ running[c].stmts[running[c].i].kind = "commit"
    /\ running'[c] # running[c]

\* C26: writes are serialized: whenever a call commits, the committed
\* tables become what they were before with that call run alone on them, so
\* the committed state is always the result of the committed calls run one
\* at a time, and no commit makes durable the half-written scan of another
\* call.
C26_CommitsAreSerial ==
    [][\A c \in Conns : Commits(c) => disk' = RunAlone(disk, running[c])]_vars

\* the case: a store_scan left the scans row of s1 in the open transaction
\* of its connection when it raised, and a later call of that connection
\* committed it: the row is in the file, no call runs, and no store of s1
\* was ever logged
C26_HalfWrittenScanCommitted ==
    /\ \A c \in Conns : running[c].op = "idle"
    /\ \E r \in disk.scans : r.scan_id = "s1" /\ ~LoggedStored("s1")
    /\ OfScan(disk.files, "s1") = {}

\* without a raising statement the commits are serial: a call that commits
\* with nothing left in its connection's transaction by an earlier call
\* leaves the tables as if it had run alone
C26_SerialFromCleanTransaction ==
    [][\A c \in Conns :
         (Commits(c) /\ (holder # c \/ conns[c] = RunUpTo(disk, running[c])))
             => disk' = RunAlone(disk, running[c])]_vars

----------------------------------------------------------------------------
(* The counters of a scans row and the rows stored with it.                *)

\* the record_count of the last FINDING_STORE entry of the scan
StoredCount(scan_id) ==
    LET stores == {i \in 1..Len(audit) : /\ audit[i].action = FINDING_STORE
                                          /\ audit[i].scan_id = scan_id}
    IN  audit[CHOOSE i \in stores : \A k \in stores : k <= i].record_count

\* the counters of scans row s count the file and match rows of its scan
\* by their columns
RowCountsRows(s) ==
    LET fs == OfScan(conn.files, s.scan_id)
        ms == OfScan(conn.matches, s.scan_id)
    IN  /\ s.total_files = Cardinality(fs)
        /\ s.files_with_matches = Cardinality({f \in fs : f.has_sensitive_data = 1})
        /\ s.files_errored = Cardinality({f \in fs : f.error # None})
        /\ s.total_matches = Cardinality({m \in ms : m.is_test_data = 0})

\* C27: for every scan that a store_scan that returned has stored (and no
\* delete_scan or purge_all has removed since), the counters of its scans
\* row agree with its rows: total_files is the number of its file rows,
\* files_with_matches the number of those with has_sensitive_data = 1,
\* files_errored the number with an error, total_matches the number of its
\* match rows with is_test_data = 0; the record_count of its FINDING_STORE
\* entry is the number of all its match rows.
C27_StoredCountersAgreeWithRows ==
    \A s \in conn.scans :
        LoggedStored(s.scan_id) =>
            /\ RowCountsRows(s)
            /\ StoredCount(s.scan_id) = Cardinality(OfScan(conn.matches, s.scan_id))

\* the case: after a delete, a stored scan with a test-data match that
\* total_matches leaves out and the record_count includes
C27_Witness ==
    /\ \E i \in 1..Len(audit) : audit[i].action = FINDING_DELETE
    /\ \E s \in conn.scans :
         /\ LoggedStored(s.scan_id)
         /\ s.total_matches = 2
         /\ StoredCount(s.scan_id) = 3
         /\ Cardinality(OfScan(conn.matches, s.scan_id)) = 3

\* the case of two stored scans, one of them with an errored file
C27_WitnessErrored ==
    /\ \A id \in ScanIds : LoggedStored(id) /\ OfScan(conn.scans, id) # {}
    /\ \E s \in conn.scans : s.files_errored = 1 /\ s.files_with_matches = 0

----------------------------------------------------------------------------
(* References between the tables (the schema declares them, SQLite does    *)
(* not enforce them without PRAGMA foreign_keys).                          *)

\* every file row names a scan row of the tables, every match row a file
\* row of its own scan
References(t) ==
    /\ \A f \in t.files : \E s \in t.scans : s.scan_id = f.scan_id
    /\ \A m \in t.matches :
         \E f \in t.files : f.id = m.file_id /\ f.scan_id = m.scan_id

\* C28: in every reachable state, in the tables the connection sees and in
\* the committed ones, every file row's scan_id names an existing scan row
\* and every match row's file_id names an existing file row with the same
\* scan_id.
C28_ReferencesHold == References(conn) /\ References(disk)

\* the case: a store_scan raised after it wrote file and match rows, which
\* stay in the open transaction
C28_Witness ==
    /\ ret.op = "store_scan"
    /\ ret.raised
    /\ conn.matches # {}
    /\ conn.matches # disk.matches

\* the case: a delete_scan removed a scan with match rows and left another
\* scan with its rows
C28_WitnessDelete ==
    /\ ret.op = "delete_scan"
    /\ ret.value > 0
    /\ conn.matches # {}

----------------------------------------------------------------------------
(* What _deduplicate drops.                                                *)

\* the ways to find the output in the candidates: for each output position
\* the position of a candidate, no candidate taken twice
Picks ==
    {f \in [1..Len(matches) -> 1..Len(all_matches)] :
        /\ \A k \in 1..Len(matches) : matches[k] = all_matches[f[k]]
        /\ \A k, l \in 1..Len(matches) : k # l => f[k] # f[l]}

\* candidate i overlaps no other candidate
Alone(i) ==
    \A j \in 1..Len(all_matches) :
        j # i => ~Overlap(all_matches[i], all_matches[j])

\* C29: the output of _deduplicate is a sub-list of the candidates ordered
\* by start; every candidate it drops starts before the end of a match it
\* keeps (and not before that match starts); a candidate that overlaps no
\* other candidate is kept.
C29_DropsOnlyOverlapped ==
    pc = "done" =>
        /\ \A k \in 1..(Len(matches) - 1) : matches[k].start <= matches[k + 1].start
        /\ \E f \in Picks :
             \A i \in 1..Len(all_matches) :
                 (\A k \in 1..Len(matches) : f[k] # i) =>
                     \E k \in 1..Len(matches) :
                         /\ matches[k].start <= all_matches[i].start
                         /\ all_matches[i].start < matches[k].end
        /\ \A i \in 1..Len(all_matches) : Alone(i) => Kept(all_matches[i])

\* the case: three candidates not in order of start, one dropped, one that
\* overlaps no other and starts where a kept one ends
C29_Witness ==
    /\ pc = "done"
    /\ Len(all_matches) = 3
    /\ Len(matches) = 2
    /\ all_matches[1].start > all_matches[2].start
    /\ \E i \in 1..3 : Alone(i) /\ \E k \in 1..2 : matches[k].end = all_matches[i].start

----------------------------------------------------------------------------
(* get_or_create_key over the life of an installation in which neither     *)
(* rotate_key nor delete_key is called: every key stored is one that a     *)
(* get_or_create_key call created and returned.                            *)

NextGetKey ==
    \/ NewEncryptor
    \/ EncryptorWithKey
    \/ KeyReturn

SpecGetKey == InitKey /\ [][NextGetKey]_vars

\* the keys stored: the keyring entry and the key file
StoredKeys == {keyring_password, key_file} \ {NoKey}

\* a get_or_create_key call returns a key in this step
KeyReturned ==
    /\ ret.op = "idle"
    /\ ret'.op = "get_or_create_key"
    /\ ~ret'.raised

\* C30: get_or_create_key is stable while neither rotate_key nor
\* delete_key is called: a call that returns when an earlier call has
\* created a key returns that key, whatever the keyring does on the way,
\* and the keyring and the key file never hold two different keys.
C30_KeyIsStable ==
    /\ [][(KeyReturned /\ StoredKeys # {}) => ret'.value \in StoredKeys]_vars
    /\ [](Cardinality(StoredKeys) <= 1)

\* the case: the keyring holds one key and the key file another, and a
\* call has just returned the keyring's
C30_TwoKeys ==
    /\ Cardinality(StoredKeys) = 2
    /\ ret.op = "get_or_create_key"
    /\ ret.value = keyring_password

\* where the keyring package is missing the key is stable: a call returns
\* the key of the file and leaves it
C30_StableWithoutKeyring ==
    [][(KeyReturned /\ ~HAS_KEYRING /\ StoredKeys # {}) =>
          /\ ret'.value = key_file
          /\ key_file' = key_file]_vars

====
